---- MODULE Spec2Model ----
(***************************************************************************)
(* A model of invoke's command runner (src/invoke/runners.py): Runner.run  *)
(* and its local backend, the orchestrating thread, the three IO worker    *)
(* threads and the child process.                                          *)
(***************************************************************************)
EXTENDS Integers, Sequences, FiniteSets, TLC

\* ------------------------------------------------------------------ bounds
\* How many chunks one output reader reads from the child in one run.
MaxChunks == 1
\* The child's exit code is drawn from 0..MaxExit.
MaxExit == 1
\* How many keyword arguments one call of run() is given.
MaxKwargs == 2
\* How many characters a watched stream grows to.
MaxStream == 2
\* How many times one thread calls submit.
MaxSubmits == 2
\* How many times run() is called on one Local instance.
MaxRuns == 2
\* How many characters the input forwarder reads from the caller's input.
MaxIn == 2
\* How many reads and writes of the local backend are looked at.
MaxIO == 2
\* How many times one Task is called.
MaxCalls == 4
\* How many parameters a task body has after its context.
MaxParams == 3
\* How many characters the child writes to the stream that is delivered in
\* chunks.
MaxFinal == 4

\* ------------------------------------------------------- program constants
\* Local.status before any waitpid, Popen.returncode before poll(): None.
NoStatus == -1
\* The factor by which a POSIX wait status holds the exit code.
WaitShift == 256

Workers == {"stdout", "stdin", "stderr"}
OutputReaders == {"stdout", "stderr"}
Streams == {"out", "err"}

\* The bytes a chunk read from the child may hold: "o" written by the child
\* to its stdout, "e" written to its stderr.
ByteO == 111
ByteE == 101

VARIABLES
    pc,                         \* where the orchestrator (the caller of run) is
    opts,                       \* the options _run_opts resolved for this call
    using_pty,                  \* Runner.using_pty
    warned_about_pty_fallback,  \* Runner.warned_about_pty_fallback
    program_finished,           \* Runner.program_finished (threading.Event)
    threads,                    \* Runner.threads: the workers of this call
    wstate,                     \* each worker: none, running, done, raised
    wexc,                       \* each worker's ExceptionHandlingThread.exception()
    joined,                     \* the workers the join loop has passed
    dead_at_join,               \* those of them that had raised when joined
    exceptions,                 \* _run_body's local list `exceptions`
    exception,                  \* _run_body's local `exception`
    child,                      \* the child process: none, running, exited
    exitcode,                   \* the code the child exited with
    status,                     \* Local.status (pty)
    returncode_,                \* Popen.returncode (no pty)
    proc_finished,              \* wait()'s local: the last completion check
    buffer,                     \* the capture buffers `stdout`, `stderr`
    mirrored,                   \* what was written to out_stream, err_stream
    consumed,                   \* the chunks each reader got from the child
    result,                     \* the Result objects built by this call
    outcome,                    \* how this call of run() ended
    log,                        \* the orchestrator's backend calls, in order
    \* Option normalization and the child's environment (SpecOpts):
    config,                     \* context.config.run, the configured defaults
    environ,                    \* os.environ of the calling process
    call_kwargs,                \* the keyword arguments run() was called with
    call_opts,                  \* `opts` as _run_opts returned it
    call_env,                   \* the `env` handed to start()
    call_echoed,                \* the command line was printed
    call_started,               \* start() was called
    call_raised,                \* the exception _run_body raised before start()
    \* One stream watcher used by the two output readers (SpecWatch):
    watcher,                    \* the class of the watcher instance
    watched,                    \* each thread's stream so far (''.join(buffer_))
    index,                      \* Responder.index, in each thread's storage
    failure_index,              \* FailingResponder.failure_index, likewise
    tried,                      \* FailingResponder.tried, likewise
    seen,                       \* each thread's calls of submit: the streams given
    got,                        \* each thread's calls of submit: what came back
    \* The pty decision over several runs of one instance (SpecPty):
    pty_calls,                  \* each call of should_use_pty: inputs and outputs
    \* The input forwarder, handle_stdin (SpecStdin):
    stdin_log,                  \* what the forwarder did, in order
    echo_stdin,                 \* handle_stdin's local `echo`
    in_tty,                     \* isatty(input_)
    \* A watcher instance handed to one invocation after another (SpecRewatch):
    past,                       \* what each ended invocation's thread left
    \* The local backend's reads and writes (SpecIO):
    io_log,                     \* each read or write: the error met, the outcome
    \* One stream delivered to a Responder chunk by chunk (SpecChunks):
    final_stream,               \* all that the child writes
    prompt,                     \* Responder.pattern
    delivered,                  \* how much of it the reader has got
    scan_index,                 \* Responder.index
    responded,                  \* how many responses were yielded
    \* One Task (SpecTask, SpecArgs):
    times_called,               \* Task.times_called
    task_calls,                 \* the calls of the Task so far
    signature,                  \* the body's parameters after the context
    positional,                 \* Task.positional
    auto_shortflags,            \* Task.auto_shortflags
    arguments                   \* what get_arguments returned

runner_vars == <<pc, opts, using_pty, warned_about_pty_fallback,
          program_finished, threads, wstate, wexc, joined,
          dead_at_join, exceptions, exception, child, exitcode, status, returncode_,
          proc_finished,
          buffer, mirrored, consumed, result, outcome, log>>

opt_vars == <<config, environ, call_kwargs, call_opts, call_env, call_echoed,
              call_started, call_raised>>

watch_vars == <<watcher, watched, index, failure_index, tried, seen, got,
                past>>

pty_vars == <<pty_calls>>

stdin_vars == <<stdin_log, echo_stdin, in_tty>>

io_vars == <<io_log>>

chunk_vars == <<final_stream, prompt, delivered, scan_index, responded>>

task_vars == <<times_called, task_calls, signature, positional,
               auto_shortflags, arguments>>

vars == <<runner_vars, opt_vars, watch_vars, pty_vars, stdin_vars, io_vars,
          chunk_vars, task_vars>>

\* ------------------------------------------------------------ pure helpers
RECURSIVE Join(_)
\* ''.join(buffer_): the chunks of a capture buffer, concatenated.
Join(chunks) ==
    IF chunks = <<>> THEN <<>> ELSE Head(chunks) \o Join(Tail(chunks))

\* The values normalize_hide accepts (None, False, True are spelled out).
hide_vals == {"None", "False", "out", "stdout", "err", "stderr", "both", "True"}

\* Python values are spelled out as strings: None, True, False, the integers
\* 0 and 1, and the strings themselves. Python's ==: True == 1, False == 0.
py_eq(a, b) == a = b \/ {a, b} = {"True", "1"} \/ {a, b} = {"False", "0"}

\* `val in (...)`: val is equal to a member.
py_in(val, members) == \E m \in members : py_eq(val, m)

\* bool(val), as `if val:` and `x if val else y` take it.
truth(val) == val \notin {"None", "False", "0", ""}

\* normalize_hide raises ValueError for val.
normalize_hide_raises(val) == ~py_in(val, hide_vals)

\* Mutant: the two branches that rename "stdout" and "stderr" are missing.
normalize_hide_without_renaming(val) ==
    IF py_in(val, {"None", "False"}) THEN {}
    ELSE IF py_in(val, {"both", "True"}) THEN {"out", "err"}
    ELSE {val}

\* normalize_hide's return value, for a val it does not raise on.
normalize_hide(val) ==
    IF py_in(val, {"None", "False"}) THEN {}
    ELSE IF py_in(val, {"both", "True"}) THEN {"out", "err"}
    ELSE IF val = "stdout" THEN {"out"}
    ELSE IF val = "stderr" THEN {"err"}
    ELSE {val}

\* The defaults the context's configuration gives run()'s keyword arguments.
config_run ==
    [warn |-> FALSE, hide |-> "None", pty |-> FALSE, fallback |-> TRUE]

\* _run_opts, one boolean key: the keyword when it was passed, else the default.
run_opt(kwargs, key) ==
    IF key \in DOMAIN kwargs THEN kwargs[key] ELSE config_run[key]

\* _run_opts, the hide key, before normalize_hide.
run_opt_hide(kw_hide) == IF kw_hide = "None" THEN config_run.hide ELSE kw_hide

\* Local.should_use_pty's return value; fileno is has_fileno(sys.stdin).
should_use_pty(pty, fallback, fileno) ==
    IF pty THEN (IF ~fileno /\ fallback THEN FALSE ELSE TRUE) ELSE FALSE

\* Local.should_use_pty writes its warning in this call.
warns_about_fallback(pty, fallback, fileno) ==
    pty /\ ~fileno /\ fallback /\ ~warned_about_pty_fallback

\* Mutant: the stderr reader is started with a pty too.
thread_args_always_stderr(use_pty) == Workers

\* Mutant: no input forwarder is started.
thread_args_without_stdin(use_pty) ==
    IF use_pty THEN {"stdout"} ELSE OutputReaders

\* The worker threads _run_body starts.
thread_args(use_pty) == IF use_pty THEN {"stdout", "stdin"} ELSE Workers

\* os.WEXITSTATUS
WEXITSTATUS(st) == (st \div WaitShift) % WaitShift

\* Local.returncode
returncode == IF using_pty THEN WEXITSTATUS(status) ELSE returncode_

\* Result.ok
ok(r) == r.exited = 0

\* Result.failed
failed(r) == ~ok(r)

\* Mutant: no __bool__ or __nonzero__, the truth value every object has.
Result_bool_of_any_object(r) == TRUE

\* Result.__bool__ (and __nonzero__): the truth value of a Result.
Result_bool(r) == ok(r)

\* ExceptionHandlingThread.is_dead: the thread ended with an exception.
is_dead(t) == wstate[t] = "raised"

\* Runner.has_dead_threads
has_dead_threads == \E t \in threads : is_dead(t)

\* Mutant: the completion check says yes whatever the child does.
process_is_finished_always == TRUE

\* Local.process_is_finished's return value
process_is_finished == child = "exited"

\* Mutant: the polling loop breaks at its first iteration.
wait_breaks_always(finished, dead_threads) == TRUE

\* Mutant: the polling loop waits for the child alone.
wait_breaks_on_child_only(finished, dead_threads) == finished

\* wait(): the condition on which the polling loop breaks.
wait_breaks(finished, dead_threads) == finished \/ dead_threads

\* Mutant: a thread that reads the flag clears it.
after_is_set_cleared(flag) == FALSE

\* threading.Event.is_set: the flag once a worker has read it.
after_is_set(flag) == flag

\* Mutant: the interrupt is kept for later but never sent to the child.
forwards_interrupt_never(e) == FALSE

\* _run_body: the interrupt is sent on to the child for this exception.
forwards_interrupt(e) == e = "KeyboardInterrupt"

\* Mutant: every join waits without a bound.
join_has_timeout_never(t) == FALSE

\* _run_body: the join of worker t is given a timeout.
join_has_timeout(t) == t # "stdin"

\* Thread.join(timeout) returns: the timeout ran out or the thread has ended.
join_returns(t) == join_has_timeout(t) \/ wstate[t] \in {"done", "raised"}

\* Mutant: both readers are handed the stdout buffer.
stream_of_always_out(w) == "out"

\* _handle_output's hide argument for each reader, and the stream it writes.
stream_of(w) == IF w = "stdout" THEN "out" ELSE "err"

hidden(w) == stream_of(w) \in opts.hide

\* What a reader may get from one read of the child's stream: with a pty the
\* child's stdout and stderr arrive merged on the one descriptor.
readable(w) ==
    IF w = "stderr" THEN {<<ByteE>>}
    ELSE IF using_pty THEN {<<ByteO>>, <<ByteE>>} ELSE {<<ByteO>>}

\* Runner.decode: bytes to text, undecodable bytes replaced.
decode(data) == [i \in DOMAIN data |-> IF data[i] < 128 THEN data[i] ELSE 65533]

NoOpts == [warn |-> FALSE, hide |-> {}, pty |-> FALSE]
Empty == [s \in Streams |-> <<>>]

\* ------------------------------------------ options and the environment
\* The keys of context.config.run that _run_opts resolves.
OptKeys == {"warn", "hide", "pty", "fallback", "echo", "env", "replace_env"}

\* The values a caller may give the hide keyword.
HideInputs == hide_vals \cup {"0", "1", "bogus"}

\* Environment variables, and the value of one that a dict does not hold.
EnvVars == {"A", "B"}
Unset == "unset"

\* The dicts a caller may give as env, by name, and what each holds.
Overlays == {"{}", "{A}", "{B}", "{A,B}"}

dict_of(name) ==
    [v \in EnvVars |->
        IF \/ v = "A" /\ name \in {"{A}", "{A,B}"}
           \/ v = "B" /\ name \in {"{B}", "{A,B}"}
        THEN "o" ELSE Unset]

\* What os.environ may hold when run() is called.
Environs == [EnvVars -> {Unset, "p"}]

\* The documented defaults of run()'s keyword arguments, and a configuration
\* that sets every one of them differently.
DefaultConfig ==
    [warn |-> "False", hide |-> "None", pty |-> "False", fallback |-> "True",
     echo |-> "False", env |-> "{}", replace_env |-> "False"]

Configs ==
    {DefaultConfig,
     [warn |-> "True", hide |-> "True", pty |-> "True", fallback |-> "False",
      echo |-> "True", env |-> "{A}", replace_env |-> "True"]}

\* Mutant: `value if not runtime else runtime`, which lets an explicit False
\* fall back to the default.
run_opts_value_if_falsy(cfg, kw, key) ==
    LET runtime == IF key \in DOMAIN kw THEN kw[key] ELSE "None"
    IN  IF ~truth(runtime) THEN cfg[key] ELSE runtime

\* _run_opts, one turn of its loop: `runtime = kwargs.pop(key, None)`, then
\* `opts[key] = value if runtime is None else runtime`.
run_opts_value(cfg, kw, key) ==
    LET runtime == IF key \in DOMAIN kw THEN kw[key] ELSE "None"
    IN  IF runtime = "None" THEN cfg[key] ELSE runtime

\* Mutant: echo is left alone whatever hide is.
hide_turns_echo_off_never(hide) == FALSE

\* _run_opts: `if opts['hide'] is True`.
hide_turns_echo_off(hide) == hide = "True"

\* _run_opts' opts dict, when normalize_hide does not raise: every key of the
\* configuration resolved, echo turned off for hide=True, hide normalized.
\* What is left in kwargs after the loop is not looked at.
run_opts_dict(cfg, kw) ==
    LET resolved == [k \in DOMAIN cfg |-> run_opts_value(cfg, kw, k)]
    IN  [k \in DOMAIN cfg |->
            IF k = "echo" /\ hide_turns_echo_off(resolved["hide"]) THEN "False"
            ELSE IF k = "hide" THEN normalize_hide(resolved["hide"])
            ELSE resolved[k]]

\* Mutant: dict(env, **os.environ), the process's values win.
generate_env_environ_wins(env, replace_env) ==
    IF truth(replace_env) THEN dict_of(env)
    ELSE [v \in EnvVars |->
             IF environ[v] # Unset THEN environ[v] ELSE dict_of(env)[v]]

\* generate_env: `env if replace_env else dict(os.environ, **env)`.
generate_env(env, replace_env) ==
    IF truth(replace_env) THEN dict_of(env)
    ELSE [v \in EnvVars |->
             IF dict_of(env)[v] # Unset THEN dict_of(env)[v] ELSE environ[v]]

NoCallOpts == [k \in OptKeys |-> IF k = "hide" THEN {} ELSE "None"]
NoEnv == [v \in EnvVars |-> Unset]
NoKwargs == [k \in {} |-> "None"]

\* ------------------------------------------------------- stream watchers
\* The characters of a watched stream: "p" is what the pattern matches, "s"
\* what the failure sentinel matches.
Chars == {"p", "s"}
pattern == <<"p">>
failure_sentinel == <<"s">>
Watchers == {"Responder", "FailingResponder"}

RECURSIVE findall(_, _)
\* len(re.findall(pat, txt, re.S)) for a literal pat: its occurrences in txt,
\* found from the left and not overlapping.
findall(pat, txt) ==
    IF Len(txt) < Len(pat) THEN 0
    ELSE IF SubSeq(txt, 1, Len(pat)) = pat
         THEN 1 + findall(pat, SubSeq(txt, Len(pat) + 1, Len(txt)))
         ELSE findall(pat, Tail(txt))

\* Mutant: the seek index is never moved.
pattern_matches_without_seek(stream, pat, idx) ==
    [matches |-> findall(pat, SubSeq(stream, idx + 1, Len(stream))),
     index |-> idx]

\* Mutant: the length of the whole stream is added to the index.
pattern_matches_adds_whole_length(stream, pat, idx) ==
    LET matches == findall(pat, SubSeq(stream, idx + 1, Len(stream)))
    IN  [matches |-> matches,
         index |-> IF matches > 0 THEN idx + Len(stream) ELSE idx]

\* Mutant: the whole stream is searched, whatever the index.
pattern_matches_whole_stream(stream, pat, idx) ==
    LET matches == findall(pat, stream)
    IN  [matches |-> matches,
         index |-> IF matches > 0 THEN Len(stream) ELSE idx]

\* Responder.pattern_matches: the matches in stream[index:], and the index
\* attribute as it leaves it.
pattern_matches(stream, pat, idx) ==
    LET new_ == SubSeq(stream, idx + 1, Len(stream))
        matches == findall(pat, new_)
    IN  [matches |-> matches,
         index |-> IF matches > 0 THEN idx + Len(new_) ELSE idx]

\* Mutant: the attributes live on the instance, one copy for every thread.
local_of_instance(t) == "stdout"

\* StreamWatcher is a threading.local: the storage of the instance's
\* attributes that thread t reads and writes is its own.
local(t) == t

\* A watcher's attributes in a thread that has not used it yet (__init__).
NewWatcher == [index |-> 0, failure_index |-> 0, tried |-> FALSE]

\* Responder.submit, its generator run to the end by the caller: the number
\* of responses it yields and the attributes afterwards.
Responder_submit(st, stream) ==
    LET m == pattern_matches(stream, pattern, st.index)
    IN  [st |-> [st EXCEPT !.index = m.index],
         responses |-> m.matches, raised |-> FALSE]

\* The truth value of `response` in FailingResponder.submit's `if response:`;
\* response is the generator object Responder.submit returned, not yet run.
response_truth == TRUE

\* Mutant: the sentinel is scanned with the response cursor, 'index'.
FailingResponder_submit_one_cursor(st, stream) ==
    LET failed_ == pattern_matches(stream, failure_sentinel, st.index)
        st1 == [st EXCEPT !.index = failed_.index]
    IN  IF st.tried /\ failed_.matches > 0
        THEN [st |-> st1, responses |-> 0, raised |-> TRUE]
        ELSE Responder_submit([st1 EXCEPT !.tried = TRUE], stream)

\* FailingResponder.submit and the caller's loop over what it returns: the
\* sentinel is looked for first; the inherited generator runs only when the
\* caller iterates it, after submit has returned.
FailingResponder_submit(st, stream) ==
    LET failed_ == pattern_matches(stream, failure_sentinel, st.failure_index)
        st1 == [st EXCEPT !.failure_index = failed_.index]
    IN  IF st.tried /\ failed_.matches > 0
        THEN [st |-> st1, responses |-> 0, raised |-> TRUE]
        ELSE Responder_submit(
                 [st1 EXCEPT !.tried = IF response_truth THEN TRUE ELSE @],
                 stream)

submit(class, st, stream) ==
    IF class = "FailingResponder" THEN FailingResponder_submit(st, stream)
                                  ELSE Responder_submit(st, stream)

NoText == [t \in OutputReaders |-> <<>>]

\* ------------------------------------------------------------------- Init
\* A Local runner after __init__, before any call of run(): all of it but
\* using_pty.
RunnerIdle ==
    /\ pc = "idle"
    /\ opts = NoOpts
    /\ warned_about_pty_fallback = FALSE
    /\ program_finished = FALSE
    /\ threads = {}
    /\ wstate = [w \in Workers |-> "none"]
    /\ wexc = [w \in Workers |-> "None"]
    /\ joined = {}
    /\ dead_at_join = {}
    /\ exceptions = <<>>
    /\ exception = "None"
    /\ child = "none"
    /\ exitcode = 0
    /\ status = NoStatus
    /\ returncode_ = NoStatus
    /\ proc_finished = FALSE
    /\ buffer = Empty
    /\ mirrored = Empty
    /\ consumed = Empty
    /\ result = {}
    /\ outcome = "none"
    /\ log = <<>>

\* A Local runner after __init__, before any call of run().
RunnerInit ==
    /\ RunnerIdle
    /\ using_pty = FALSE

\* No call of run() was looked at for its options yet.
OptsIdle ==
    /\ call_kwargs = NoKwargs
    /\ call_opts = NoCallOpts
    /\ call_env = NoEnv
    /\ call_echoed = FALSE
    /\ call_started = FALSE
    /\ call_raised = "None"

\* No thread has used the watcher yet.
WatchIdle ==
    /\ watched = NoText
    /\ index = [t \in OutputReaders |-> NewWatcher.index]
    /\ failure_index = [t \in OutputReaders |-> NewWatcher.failure_index]
    /\ tried = [t \in OutputReaders |-> NewWatcher.tried]
    /\ seen = NoText
    /\ got = NoText
    /\ past = <<>>

\* should_use_pty was not called yet.
PtyIdle == pty_calls = <<>>

\* No input forwarder was started.
StdinIdle ==
    /\ stdin_log = <<>>
    /\ echo_stdin = "None"
    /\ in_tty = FALSE

\* No read or write was looked at, no stream delivered, no Task made.
Unused ==
    /\ io_log = <<>>
    /\ final_stream = <<>>
    /\ prompt = <<>>
    /\ delivered = 0
    /\ scan_index = 0
    /\ responded = 0
    /\ times_called = 0
    /\ task_calls = <<>>
    /\ signature = <<>>
    /\ positional = <<>>
    /\ auto_shortflags = FALSE
    /\ arguments = <<>>

\* The runner with the documented defaults, one environment, and a watcher
\* that is not used.
Init ==
    /\ RunnerInit
    /\ config = DefaultConfig
    /\ environ = NoEnv
    /\ OptsIdle
    /\ watcher = "Responder"
    /\ WatchIdle
    /\ PtyIdle
    /\ StdinIdle
    /\ Unused

\* ------------------------------------------------------- the orchestrator
\* generate_result: the Result _run_body builds.
\* Result.__init__ (command, shell and env are kept as given).
Result(stdout, stderr, exited, pty) ==
    [stdout |-> stdout, stderr |-> stderr, exited |-> exited,
     return_code |-> exited, pty |-> pty]

generate_result(out, err, exited, pty) ==
    Result(Join(out), Join(err), exited, pty)

\* Mutant: warn is ignored, a nonzero exit always raises.
raises_failure_ignoring_warn(r, warn) == ~ok(r)

\* Mutant: `and` for `or`, only a zero exit under warn is returned.
raises_failure_and_for_or(r, warn) == ~(ok(r) /\ warn)

\* _run_body's last statement: raise Failure, or return the Result.
raises_failure(r, warn) == ~(Result_bool(r) \/ warn)

\* Mutant: the worker exceptions are looked at before the captured one.
run_outcome_threads_first(exc, excs, r, warn) ==
    IF excs # <<>> THEN "ThreadException"
    ELSE IF exc # "None" THEN exc
    ELSE IF ~(ok(r) \/ warn) THEN "Failure"
    ELSE "returned"

\* Mutant: the exceptions collected from the workers are dropped.
run_outcome_ignoring_threads(exc, excs, r, warn) ==
    IF exc # "None" THEN exc
    ELSE IF ~(ok(r) \/ warn) THEN "Failure"
    ELSE "returned"

\* Mutant: the exception captured from wait() is dropped.
run_outcome_ignoring_interrupt(exc, excs, r, warn) ==
    IF excs # <<>> THEN "ThreadException"
    ELSE IF ~(ok(r) \/ warn) THEN "Failure"
    ELSE "returned"

\* _run_body after the join loop: how the call ends.
run_outcome(exc, excs, r, warn) ==
    IF exc # "None" THEN exc
    ELSE IF excs # <<>> THEN "ThreadException"
    ELSE IF raises_failure(r, warn) THEN "Failure"
    ELSE "returned"

\* Mutant: stop() is called after a _run_body that returned or raised
\* Failure, and skipped when it raised anything else.
run_finally_on_result_only(body_log) ==
    IF \E i \in DOMAIN body_log : body_log[i] = <<"returncode">>
    THEN Append(body_log, <<"stop">>) ELSE body_log

\* run()'s try/finally: whatever _run_body did (its backend calls are
\* body_log), stop() is called after it.
run_finally(body_log) == Append(body_log, <<"stop">>)

\* run() is called: _run_body from _run_opts to the start of the IO threads.
\* kwargs holds the boolean keywords passed, kw_hide the hide keyword,
\* fileno whether sys.stdin has a usable fileno. When normalize_hide raises ValueError
\* nothing is started and run() ends in its finally clause.
RunCall(kwargs, kw_hide, fileno) ==
    LET hide == run_opt_hide(kw_hide)
        pty == run_opt(kwargs, "pty")
        fallback == run_opt(kwargs, "fallback")
        use_pty == should_use_pty(pty, fallback, fileno)
    IN  /\ pc = "idle"
        /\ IF normalize_hide_raises(hide)
           THEN /\ outcome' = "ValueError"
                /\ pc' = "done"
                /\ log' = run_finally(log)
                /\ UNCHANGED <<opts, using_pty, warned_about_pty_fallback,
                               threads, wstate, child>>
           ELSE /\ opts' = [warn |-> run_opt(kwargs, "warn"),
                            hide |-> normalize_hide(hide),
                            pty |-> pty]
                /\ using_pty' = use_pty
                /\ warned_about_pty_fallback' =
                       (warned_about_pty_fallback
                            \/ warns_about_fallback(pty, fallback, fileno))
                /\ child' = "running"
                /\ threads' = thread_args(use_pty)
                /\ wstate' = [w \in Workers |->
                                 IF w \in thread_args(use_pty) THEN "running"
                                                               ELSE "none"]
                /\ log' = Append(log, <<"start">>)
                /\ pc' = "wait"
                /\ UNCHANGED outcome
        /\ UNCHANGED <<opt_vars, watch_vars, pty_vars, stdin_vars, io_vars, chunk_vars,
                 task_vars>>
        /\ UNCHANGED <<program_finished, wexc, joined, dead_at_join, exceptions,
                       exception,
                       exitcode, status, returncode_, proc_finished, buffer,
                       mirrored, consumed, result>>

BoolKeys == {"warn", "pty", "fallback"}

Run ==
    \E keys \in SUBSET BoolKeys : \E kwargs \in [keys -> BOOLEAN] :
    \E kw_hide \in hide_vals \cup {"bogus"} :
    \E fileno \in BOOLEAN :
        RunCall(kwargs, kw_hide, fileno)

\* wait(): one iteration of the polling loop. When the loop breaks, wait()
\* returns and _run_body sets program_finished.
WaitPoll ==
    /\ pc = "wait"
    /\ proc_finished' = process_is_finished
    /\ IF using_pty
       THEN /\ status' = (IF process_is_finished THEN exitcode * WaitShift ELSE 0)
            /\ UNCHANGED returncode_
       ELSE /\ returncode_' = (IF process_is_finished THEN exitcode ELSE NoStatus)
            /\ UNCHANGED status
    /\ IF wait_breaks(process_is_finished, has_dead_threads)
       THEN /\ program_finished' = TRUE
            /\ log' = Append(log, <<"set">>)
            /\ pc' = "join"
       ELSE UNCHANGED <<program_finished, log, pc>>
    /\ UNCHANGED <<opt_vars, watch_vars, pty_vars, stdin_vars, io_vars, chunk_vars,
                 task_vars>>
    /\ UNCHANGED <<opts, using_pty, warned_about_pty_fallback,
                   threads, wstate, wexc, joined, dead_at_join, exceptions, exception, child,
                   exitcode, buffer, mirrored, consumed, result,
                   outcome>>

\* wait() raises e in the orchestrator: the user's ^C arrives as a
\* KeyboardInterrupt while it polls. _run_body's except clause keeps it,
\* sends the interrupt on to the child, and sets program_finished.
WaitRaises(e) ==
    /\ pc = "wait"
    /\ exception' = e
    /\ program_finished' = TRUE
    /\ log' = IF forwards_interrupt(e)
              THEN log \o <<<<"send_interrupt">>, <<"set">>>>
              ELSE Append(log, <<"set">>)
    /\ pc' = "join"
    /\ UNCHANGED <<opt_vars, watch_vars, pty_vars, stdin_vars, io_vars, chunk_vars,
                 task_vars>>
    /\ UNCHANGED <<opts, using_pty, warned_about_pty_fallback,
                   threads, wstate, wexc, joined, dead_at_join, exceptions, child, exitcode,
                   status, returncode_, proc_finished, buffer, mirrored,
                   consumed, result, outcome>>

\* ExceptionHandlingThread.exception(): what the thread raised, or None.
thread_exception(t) == wexc[t]

\* Mutant: the list is replaced by the last exception, not appended to.
collect_last_only(excs, t, e) == IF e # "None" THEN <<<<t, e>>>> ELSE excs

\* The join loop's `if e is not None: exceptions.append(e)`.
collect(excs, t, e) == IF e # "None" THEN Append(excs, <<t, e>>) ELSE excs

\* One iteration of the join loop: t.join(timeout), then t.exception().
JoinThread(t) ==
    /\ pc = "join"
    /\ t \in threads \ joined
    /\ join_returns(t)
    /\ joined' = joined \cup {t}
    /\ dead_at_join' = IF is_dead(t) THEN dead_at_join \cup {t} ELSE dead_at_join
    /\ exceptions' = collect(exceptions, t, thread_exception(t))
    /\ UNCHANGED <<opt_vars, watch_vars, pty_vars, stdin_vars, io_vars, chunk_vars,
                 task_vars>>
    /\ UNCHANGED <<pc, opts, using_pty, warned_about_pty_fallback,
                   program_finished, threads, wstate, wexc, exception,
                   child, exitcode, status, returncode_, proc_finished, buffer,
                   mirrored, consumed, result, outcome, log>>

\* _run_body from the end of the join loop to its return or raise, and
\* run()'s finally clause.
Finish ==
    LET r == generate_result(buffer.out, buffer.err, returncode, using_pty)
        how == run_outcome(exception, exceptions, r, opts.warn)
    IN  /\ pc = "join"
        /\ joined = threads
        /\ outcome' = how
        /\ IF how \in {"Failure", "returned"}
           THEN /\ result' = result \cup {r}
                /\ log' = run_finally(Append(log, <<"returncode">>))
           ELSE /\ log' = run_finally(log)
                /\ UNCHANGED result
        /\ pc' = "done"
        /\ UNCHANGED <<opt_vars, watch_vars, pty_vars, stdin_vars, io_vars, chunk_vars,
                 task_vars>>
        /\ UNCHANGED <<opts, using_pty, warned_about_pty_fallback,
                       program_finished, threads, wstate, wexc,
                       joined, dead_at_join, exceptions, exception, child, exitcode, status,
                       returncode_, proc_finished, buffer, mirrored, consumed>>

\* ------------------------------------------------------------ the workers
\* _handle_output: `if not hide: self.write_our_output(...)`.
mirror(written, hide, text) == IF hide THEN written ELSE Append(written, text)

\* Mutant: the append sits inside `if not hide`.
capture_unless_hidden(buf, hide, text) ==
    IF hide THEN buf ELSE Append(buf, text)

\* _handle_output: `buffer_.append(data)`, whatever hide is.
capture(buf, hide, text) == Append(buf, text)

\* Mutant: the chunk is appended and the watchers run before it is mirrored.
handle_output_steps_mirror_last == <<"append", "respond", "write_our_output">>

\* _handle_output: what the loop body does with a chunk, in this order.
handle_output_steps == <<"write_our_output", "append", "respond">>

RECURSIVE performed(_, _)
\* The steps of the loop body that are done: all of them, or those up to
\* respond when a watcher raises in it.
performed(steps, fails) ==
    IF steps = <<>> THEN {}
    ELSE IF Head(steps) = "respond" /\ fails THEN {"respond"}
    ELSE {Head(steps)} \cup performed(Tail(steps), fails)

\* _handle_output, one iteration that got data: mirror it unless hidden,
\* append it to the capture buffer, then run the watchers over the buffer
\* (respond); fails says that a watcher raised ResponseFailure.
ReadChunk(w, data, fails) ==
    LET s == stream_of(w)
        done == performed(handle_output_steps, fails)
    IN
    /\ w \in threads \cap OutputReaders
    /\ wstate[w] = "running"
    /\ Len(consumed[s]) < MaxChunks
    /\ data \in readable(w)
    /\ consumed' = [consumed EXCEPT ![s] = Append(@, data)]
    /\ mirrored' = IF "write_our_output" \in done
                   THEN [mirrored EXCEPT
                            ![s] = mirror(@, hidden(w), decode(data))]
                   ELSE mirrored
    /\ buffer' = IF "append" \in done
                 THEN [buffer EXCEPT
                          ![s] = capture(@, hidden(w), decode(data))]
                 ELSE buffer
    /\ IF fails
       THEN /\ wstate' = [wstate EXCEPT ![w] = "raised"]
            /\ wexc' = [wexc EXCEPT ![w] = "ResponseFailure"]
       ELSE UNCHANGED <<wstate, wexc>>
    /\ UNCHANGED <<opt_vars, watch_vars, pty_vars, stdin_vars, io_vars, chunk_vars,
                 task_vars>>
    /\ UNCHANGED <<pc, opts, using_pty, warned_about_pty_fallback,
                   program_finished, threads, joined, dead_at_join, exceptions,
                   exception, child, exitcode, status, returncode_,
                   proc_finished, result, outcome, log>>

\* read_proc_output: a read that yields no data ends the reader. The child
\* has exited and its stream is drained (with a pty the read's input/output
\* error is swallowed by read_proc_stdout and counts as no data).
ReadEnd(w) ==
    /\ w \in threads \cap OutputReaders
    /\ wstate[w] = "running"
    /\ child = "exited"
    /\ wstate' = [wstate EXCEPT ![w] = "done"]
    /\ UNCHANGED <<opt_vars, watch_vars, pty_vars, stdin_vars, io_vars, chunk_vars,
                 task_vars>>
    /\ UNCHANGED <<pc, opts, using_pty, warned_about_pty_fallback,
                   program_finished, threads, wexc, joined, dead_at_join,
                   exceptions, exception, child, exitcode, status, returncode_,
                   proc_finished, buffer, mirrored, consumed,
                   result, outcome, log>>

\* A read of the child's stream raises an OSError that is not swallowed.
ReadError(w) ==
    /\ w \in threads \cap OutputReaders
    /\ wstate[w] = "running"
    /\ wstate' = [wstate EXCEPT ![w] = "raised"]
    /\ wexc' = [wexc EXCEPT ![w] = "OSError"]
    /\ UNCHANGED <<opt_vars, watch_vars, pty_vars, stdin_vars, io_vars, chunk_vars,
                 task_vars>>
    /\ UNCHANGED <<pc, opts, using_pty, warned_about_pty_fallback,
                   program_finished, threads, joined, dead_at_join, exceptions,
                   exception, child, exitcode, status, returncode_,
                   proc_finished, buffer, mirrored, consumed,
                   result, outcome, log>>

\* handle_stdin, one iteration that read a character: it is written to the
\* child's stdin; written says that the write did not raise.
StdinChar(written) ==
    /\ "stdin" \in threads
    /\ wstate["stdin"] = "running"
    /\ IF written
       THEN UNCHANGED <<wstate, wexc>>
       ELSE /\ wstate' = [wstate EXCEPT !["stdin"] = "raised"]
            /\ wexc' = [wexc EXCEPT !["stdin"] = "OSError"]
    /\ UNCHANGED <<opt_vars, watch_vars, pty_vars, stdin_vars, io_vars, chunk_vars,
                 task_vars>>
    /\ UNCHANGED <<pc, opts, using_pty, warned_about_pty_fallback,
                   program_finished, threads, joined, dead_at_join, exceptions,
                   exception, child, exitcode, status, returncode_,
                   proc_finished, buffer, mirrored, consumed, result, outcome,
                   log>>

\* handle_stdin, one iteration that read no character: eof says the read
\* gave the empty string (end of stream), otherwise it gave None (not ready).
StdinEmpty(eof) ==
    /\ "stdin" \in threads
    /\ wstate["stdin"] = "running"
    /\ wstate' = IF eof \/ program_finished
                 THEN [wstate EXCEPT !["stdin"] = "done"] ELSE wstate
    /\ program_finished' = after_is_set(program_finished)
    /\ UNCHANGED <<opt_vars, watch_vars, pty_vars, stdin_vars, io_vars, chunk_vars,
                 task_vars>>
    /\ UNCHANGED <<pc, opts, using_pty, warned_about_pty_fallback,
                   threads, wexc, joined, dead_at_join,
                   exceptions, exception, child, exitcode, status, returncode_,
                   proc_finished, buffer, mirrored, consumed,
                   result, outcome, log>>

\* --------------------------------------------------------------- the child
\* The child process exits with a code of its choosing.
ChildExit(code) ==
    /\ child = "running"
    /\ child' = "exited"
    /\ exitcode' = code
    /\ UNCHANGED <<opt_vars, watch_vars, pty_vars, stdin_vars, io_vars, chunk_vars,
                 task_vars>>
    /\ UNCHANGED <<pc, opts, using_pty, warned_about_pty_fallback,
                   program_finished, threads, wstate, wexc, joined, dead_at_join,
                   exceptions, exception, status, returncode_, proc_finished,
                   buffer, mirrored, consumed, result, outcome, log>>

\* ------------------------------------------------------ the specification
Orchestrator ==
    \/ Run
    \/ WaitPoll
    \/ \E e \in {"KeyboardInterrupt"} : WaitRaises(e)
    \/ \E t \in Workers : JoinThread(t)
    \/ Finish

StdinWorker ==
    \/ \E written \in BOOLEAN : StdinChar(written)
    \/ \E eof \in BOOLEAN : StdinEmpty(eof)

OutputWorkers ==
    \/ \E w \in OutputReaders : \E data \in {<<ByteO>>, <<ByteE>>} :
           \E fails \in BOOLEAN : ReadChunk(w, data, fails)
    \/ \E w \in OutputReaders : ReadEnd(w)
    \/ \E w \in OutputReaders : ReadError(w)

Next ==
    \/ Orchestrator
    \/ StdinWorker
    \/ OutputWorkers
    \/ \E code \in 0..MaxExit : ChildExit(code)

Spec == Init /\ [][Next]_vars

\* The orchestrator thread keeps running: its polling loop, its join loop
\* and what follows are not starved. The input forwarder keeps running too,
\* and a read of the input eventually yields nothing. Nothing is assumed of
\* the child, nor of the output readers, which may stay blocked in a read.
FairSpec ==
    /\ Spec
    /\ WF_vars(WaitPoll)
    /\ WF_vars(\E t \in Workers : JoinThread(t))
    /\ WF_vars(Finish)
    /\ WF_vars(\E eof \in BOOLEAN : StdinEmpty(eof))

\* ---------------------------- run after run on one instance (SpecRuns)
\* run() has ended and the caller is about to call it again on the same
\* instance: what _run_body keeps in locals, the threads and the child are
\* those of the call to come; the attributes of the instance stay as the
\* last call left them (program_finished, using_pty, status and
\* warned_about_pty_fallback).
RunAgain ==
    /\ pc = "done"
    /\ pc' = "idle"
    /\ opts' = NoOpts
    /\ threads' = {}
    /\ wstate' = [w \in Workers |-> "none"]
    /\ wexc' = [w \in Workers |-> "None"]
    /\ joined' = {}
    /\ dead_at_join' = {}
    /\ exceptions' = <<>>
    /\ exception' = "None"
    /\ child' = "none"
    /\ exitcode' = 0
    /\ returncode_' = NoStatus
    /\ proc_finished' = FALSE
    /\ buffer' = Empty
    /\ mirrored' = Empty
    /\ consumed' = Empty
    /\ result' = {}
    /\ outcome' = "none"
    /\ log' = <<>>
    /\ UNCHANGED <<program_finished, using_pty, status,
                   warned_about_pty_fallback>>
    /\ UNCHANGED <<opt_vars, watch_vars, pty_vars, stdin_vars, io_vars, chunk_vars,
                 task_vars>>

\* Calls of run() for children that write nothing to their output.
NextRuns ==
    \/ Orchestrator
    \/ StdinWorker
    \/ \E w \in OutputReaders : ReadEnd(w)
    \/ \E w \in OutputReaders : ReadError(w)
    \/ \E code \in 0..MaxExit : ChildExit(code)
    \/ RunAgain

SpecRuns == Init /\ [][NextRuns]_vars

\* ------------------------------------- options: the start of _run_body
\* The keyword names a caller may pass: the configured ones and one that no
\* configuration knows.
KwKeys == OptKeys \cup {"colour"}

\* The values a caller may pass under each keyword.
KwValues(k) ==
    IF k = "hide" THEN HideInputs
    ELSE IF k = "env" THEN Overlays \cup {"None"}
    ELSE IF k \in OptKeys THEN {"None", "True", "False"}
    ELSE {"True"}

\* The kwargs of a call: at most MaxKwargs keywords.
Kwargs ==
    UNION {{kw \in [keys -> HideInputs \cup Overlays] :
                \A k \in keys : kw[k] \in KwValues(k)} :
           keys \in {K \in SUBSET KwKeys : Cardinality(K) <= MaxKwargs}}

\* run() is called with kwargs kw: _run_body from _run_opts to start().
\* fileno says whether sys.stdin has a usable fileno. When normalize_hide
\* raises, _run_opts is left before the pty decision and nothing is printed
\* or started.
RunBodyStart(kw, fileno) ==
    LET hide == run_opts_value(config, kw, "hide")
        o == run_opts_dict(config, kw)
        pty == truth(o["pty"])
        fallback == truth(o["fallback"])
    IN  /\ ~call_started
        /\ call_raised = "None"
        /\ call_kwargs' = kw
        /\ IF normalize_hide_raises(hide)
           THEN /\ call_raised' = "ValueError"
                /\ UNCHANGED <<call_opts, call_env, call_echoed, call_started,
                               using_pty, warned_about_pty_fallback>>
           ELSE /\ call_opts' = o
                /\ using_pty' = should_use_pty(pty, fallback, fileno)
                /\ warned_about_pty_fallback' =
                       (warned_about_pty_fallback
                            \/ warns_about_fallback(pty, fallback, fileno))
                /\ call_env' = generate_env(o["env"], o["replace_env"])
                /\ call_echoed' = truth(o["echo"])
                /\ call_started' = TRUE
                /\ UNCHANGED call_raised
        /\ UNCHANGED <<config, environ>>
        /\ UNCHANGED <<watch_vars, pty_vars, stdin_vars, io_vars, chunk_vars,
                 task_vars>>
        /\ UNCHANGED <<pc, opts, program_finished, threads, wstate, wexc,
                       joined, dead_at_join, exceptions, exception, child,
                       exitcode, status, returncode_, proc_finished, buffer,
                       mirrored, consumed, result, outcome, log>>

\* A runner under any of the configurations, in any of the environments.
InitOpts ==
    /\ RunnerInit
    /\ config \in Configs
    /\ environ \in Environs
    /\ OptsIdle
    /\ watcher = "Responder"
    /\ WatchIdle
    /\ PtyIdle
    /\ StdinIdle
    /\ Unused

NextOpts ==
    \E kw \in Kwargs : \E fileno \in BOOLEAN : RunBodyStart(kw, fileno)

SpecOpts == InitOpts /\ [][NextOpts]_vars

\* ------------------------------------- watchers: two threads, one instance
\* The child writes character c to the stream thread t reads.
Grow(t, c) ==
    /\ Len(watched[t]) < MaxStream
    /\ watched' = [watched EXCEPT ![t] = Append(@, c)]
    /\ UNCHANGED <<watcher, index, failure_index, tried, seen, got, past>>
    /\ UNCHANGED <<runner_vars, opt_vars, pty_vars, stdin_vars, io_vars, chunk_vars,
                 task_vars>>

\* Thread t calls watcher.submit with its whole stream and iterates over what
\* it returns, as respond does. The attributes are read from and written to
\* the storage local(t).
Submit(t) ==
    LET st == [index |-> index[local(t)],
               failure_index |-> failure_index[local(t)],
               tried |-> tried[local(t)]]
        r == submit(watcher, st, watched[t])
    IN  /\ Len(seen[t]) < MaxSubmits
        /\ index' = [index EXCEPT ![local(t)] = r.st.index]
        /\ failure_index' =
               [failure_index EXCEPT ![local(t)] = r.st.failure_index]
        /\ tried' = [tried EXCEPT ![local(t)] = r.st.tried]
        /\ seen' = [seen EXCEPT ![t] = Append(@, watched[t])]
        /\ got' = [got EXCEPT ![t] =
                      Append(@, [responses |-> r.responses,
                                 raised |-> r.raised,
                                 index |-> r.st.index,
                                 sentinel_from |-> st.failure_index])]
        /\ UNCHANGED <<watcher, watched, past>>
        /\ UNCHANGED <<runner_vars, opt_vars, pty_vars, stdin_vars, io_vars, chunk_vars,
                 task_vars>>

\* One watcher instance of either class, handed to both output readers.
InitWatch ==
    /\ RunnerInit
    /\ config = DefaultConfig
    /\ environ = NoEnv
    /\ OptsIdle
    /\ watcher \in Watchers
    /\ WatchIdle
    /\ PtyIdle
    /\ StdinIdle
    /\ Unused

NextWatch ==
    \/ \E t \in OutputReaders : \E c \in Chars : Grow(t, c)
    \/ \E t \in OutputReaders : Submit(t)

SpecWatch == InitWatch /\ [][NextWatch]_vars

\* ------------------------------- the pty decision, run after run (SpecPty)
\* The in_stream a caller may pass: none (sys.stdin is used), an open file,
\* or an in-memory stream without a file descriptor.
InStreams == {"None", "file", "StringIO"}

\* has_fileno(in_stream), in_stream resolved as _run_opts resolves it;
\* fileno is has_fileno(sys.stdin).
in_stream_has_fileno(in_stream, fileno) ==
    IF in_stream = "None" THEN fileno ELSE in_stream = "file"

\* One more call of run() on the same instance, as far as the pty decision:
\* _run_opts resolves in_stream and assigns using_pty from should_use_pty,
\* which may write its warning to sys.stderr.
DecidePty(pty, fallback, fileno, in_stream) ==
    /\ Len(pty_calls) < MaxRuns
    /\ using_pty' = should_use_pty(pty, fallback, fileno)
    /\ warned_about_pty_fallback' =
           (warned_about_pty_fallback
                \/ warns_about_fallback(pty, fallback, fileno))
    /\ pty_calls' =
           Append(pty_calls,
                  [pty |-> pty, fallback |-> fallback,
                   in_fileno |-> in_stream_has_fileno(in_stream, fileno),
                   in_stream |-> in_stream,
                   use_pty |-> should_use_pty(pty, fallback, fileno),
                   warning |-> warns_about_fallback(pty, fallback, fileno)])
    /\ UNCHANGED <<pc, opts, program_finished, threads, wstate, wexc,
                   joined, dead_at_join, exceptions, exception, child,
                   exitcode, status, returncode_, proc_finished, buffer,
                   mirrored, consumed, result, outcome, log>>
    /\ UNCHANGED <<opt_vars, watch_vars, stdin_vars, io_vars, chunk_vars,
                   task_vars>>

NextPty ==
    \E pty, fallback, fileno \in BOOLEAN : \E in_stream \in InStreams :
        DecidePty(pty, fallback, fileno, in_stream)

SpecPty == Init /\ [][NextPty]_vars

\* ------------------------------------ the input forwarder (SpecStdin)
\* The characters the caller's input may hold.
InChars == {"a", "b"}

\* What read_our_stdin may return: a character, the empty string (end of
\* the stream), or None (nothing ready to be read).
Reads == InChars \cup {"", "None"}

\* The values of the echo_stdin option: unset, forced on, forced off.
EchoOptions == {"None", "True", "False"}

\* The truth value of what read_our_stdin returned (`if char:`, `not char`).
char_truth(char) == char \notin {"", "None"}

\* Mutant: the input's terminal is all that decides.
should_echo_stdin_ignoring_pty(use_pty, tty) == tty

\* Runner.should_echo_stdin; tty is isatty(input_).
should_echo_stdin(use_pty, tty) == (~use_pty) /\ tty

\* handle_stdin: `if echo is None: echo = self.should_echo_stdin(...)`.
echo_resolved(echo, use_pty, tty) ==
    IF echo = "None"
    THEN (IF should_echo_stdin(use_pty, tty) THEN "True" ELSE "False")
    ELSE echo

\* Mutant: the loop ends as soon as the flag is set, whatever was read.
ends_loop_on_flag_alone(char, finished) == char = "" \/ finished

\* handle_stdin: the iteration that read char breaks out of the loop, by
\* `elif char is not None: break` or by
\* `if self.program_finished.is_set() and not char: break`.
ends_loop(char, finished) ==
    \/ (~char_truth(char) /\ char # "None")
    \/ (finished /\ ~char_truth(char))

\* One entry of the forwarder's log.
Did(op, arg) == [op |-> op, arg |-> arg, finished |-> program_finished]

\* handle_stdin's body for a character that was read: write_proc_stdin, then
\* the echo to the caller's output when echo, resolved, is true. fails says
\* that the write raised an OSError other than a broken pipe.
handle_stdin_char(echo, char, fails) ==
    IF fails
    THEN <<Did("read", char), Did("raise", "OSError")>>
    ELSE <<Did("read", char), Did("write", char)>>
             \o (IF echo = "True" THEN <<Did("echo", char)>> ELSE <<>>)

\* The forwarder is in its loop.
forwarding ==
    /\ stdin_log # <<>>
    /\ stdin_log[Len(stdin_log)].op \notin {"return", "raise"}

\* handle_stdin, one iteration whose read gave a character.
ForwardChar(char, fails) ==
    LET echo == echo_resolved(echo_stdin, using_pty, in_tty)
        did == handle_stdin_char(echo, char, fails)
    IN  /\ forwarding
        /\ Cardinality({i \in DOMAIN stdin_log : stdin_log[i].op = "read"})
               < MaxIn
        /\ echo_stdin' = IF fails THEN echo_stdin ELSE echo
        /\ stdin_log' =
               IF ~fails /\ ends_loop(char, program_finished)
               THEN stdin_log \o did \o <<Did("return", char)>>
               ELSE stdin_log \o did
        /\ UNCHANGED <<in_tty, runner_vars, opt_vars, watch_vars, pty_vars,
                       io_vars, chunk_vars, task_vars>>

\* handle_stdin, one iteration whose read gave no character: the empty
\* string or None. The iteration that goes on to sleep changes nothing.
ForwardNothing(char) ==
    /\ forwarding
    /\ ends_loop(char, program_finished)
    /\ stdin_log' = Append(stdin_log, Did("return", char))
    /\ UNCHANGED <<echo_stdin, in_tty, runner_vars, opt_vars, watch_vars,
                   pty_vars, io_vars, chunk_vars, task_vars>>

\* _run_body, in the orchestrator thread: `self.program_finished.set()`.
SetProgramFinished ==
    /\ ~program_finished
    /\ program_finished' = TRUE
    /\ UNCHANGED <<pc, opts, using_pty, warned_about_pty_fallback, threads,
                   wstate, wexc, joined, dead_at_join, exceptions, exception,
                   child, exitcode, status, returncode_, proc_finished,
                   buffer, mirrored, consumed, result, outcome, log>>
    /\ UNCHANGED <<opt_vars, watch_vars, pty_vars, stdin_vars, io_vars, chunk_vars,
                 task_vars>>

\* The forwarder thread was just started, with the echo_stdin option as its
\* echo argument, for an invocation with or without a pty, on an input that
\* is or is not a terminal.
InitStdin ==
    /\ RunnerIdle
    /\ using_pty \in BOOLEAN
    /\ config = DefaultConfig
    /\ environ = NoEnv
    /\ OptsIdle
    /\ watcher = "Responder"
    /\ WatchIdle
    /\ PtyIdle
    /\ Unused
    /\ in_tty \in BOOLEAN
    /\ echo_stdin \in EchoOptions
    /\ stdin_log = <<[op |-> "handle_stdin", arg |-> echo_stdin,
                       finished |-> FALSE]>>

NextStdin ==
    \/ \E char \in InChars : \E fails \in BOOLEAN : ForwardChar(char, fails)
    \/ \E char \in Reads \ InChars : ForwardNothing(char)
    \/ SetProgramFinished

SpecStdin == InitStdin /\ [][NextStdin]_vars

\* ------------- one watcher, one invocation after another (SpecRewatch)
\* Mutant: a plain object, whose attributes stay as the last thread left them.
first_seen_as_left(st) == st

\* StreamWatcher is a threading.local: a thread that has not used the
\* instance yet finds the attributes as __init__ sets them, whatever st
\* another thread left in its own storage.
first_seen_by_new_thread(st) == NewWatcher

\* The invocation ends and the same watcher instance is handed to the next
\* one, whose output readers are new threads (_run_body makes its threads
\* anew) with empty capture buffers.
NewInvocation ==
    LET left == [t \in OutputReaders |->
                    [index |-> index[t], failure_index |-> failure_index[t],
                     tried |-> tried[t]]]
    IN  /\ Len(past) + 1 < MaxRuns
        /\ past' = Append(past, left["stdout"])
        /\ index' =
               [t \in OutputReaders |-> first_seen_by_new_thread(left[t]).index]
        /\ failure_index' =
               [t \in OutputReaders |->
                   first_seen_by_new_thread(left[t]).failure_index]
        /\ tried' =
               [t \in OutputReaders |-> first_seen_by_new_thread(left[t]).tried]
        /\ watched' = NoText
        /\ seen' = NoText
        /\ got' = NoText
        /\ UNCHANGED watcher
        /\ UNCHANGED <<runner_vars, opt_vars, pty_vars, stdin_vars, io_vars,
                       chunk_vars, task_vars>>

\* Invocations under a pty: the stdout reader is the one output reader.
NextRewatch ==
    \/ \E c \in Chars : Grow("stdout", c)
    \/ Submit("stdout")
    \/ NewInvocation

SpecRewatch == InitWatch /\ [][NextRewatch]_vars

\* --------------- one stream, delivered chunk by chunk (SpecChunks)
\* The patterns a Responder is made with: one character, or two.
Prompts == {<<"p">>, <<"p", "s">>}

\* The output reader gets one more chunk, which takes its capture buffer to
\* the first n characters of what the child writes; respond joins the buffer
\* and the Responder's submit, iterated, scans it from its index.
Deliver(n) ==
    LET m == pattern_matches(SubSeq(final_stream, 1, n), prompt, scan_index)
    IN  /\ n \in (delivered + 1)..Len(final_stream)
        /\ delivered' = n
        /\ scan_index' = m.index
        /\ responded' = responded + m.matches
        /\ UNCHANGED <<final_stream, prompt>>
        /\ UNCHANGED <<runner_vars, opt_vars, watch_vars, pty_vars, stdin_vars,
                       io_vars, task_vars>>

\* A Responder not used yet, and a child that will write any stream of up to
\* MaxFinal characters.
InitChunks ==
    /\ RunnerInit
    /\ config = DefaultConfig
    /\ environ = NoEnv
    /\ OptsIdle
    /\ watcher = "Responder"
    /\ WatchIdle
    /\ PtyIdle
    /\ StdinIdle
    /\ io_log = <<>>
    /\ final_stream \in UNION {[1..n -> Chars] : n \in 1..MaxFinal}
    /\ prompt \in Prompts
    /\ delivered = 0
    /\ scan_index = NewWatcher.index
    /\ responded = 0
    /\ times_called = 0
    /\ task_calls = <<>>
    /\ signature = <<>>
    /\ positional = <<>>
    /\ auto_shortflags = FALSE
    /\ arguments = <<>>

NextChunks == \E n \in 1..MaxFinal : Deliver(n)

SpecChunks == InitChunks /\ [][NextChunks]_vars

\* ------------------------- the local backend's reads and writes (SpecIO)
\* What os.read or os.write may meet: no error, or an OSError, named by its
\* errno.
OSErrors == {"EIO", "EPIPE", "EBADF"}

\* str(e) of an OSError, as far as the code looks at it.
strerror(e) ==
    IF e = "EIO" THEN "Input/output error"
    ELSE IF e = "EPIPE" THEN "Broken pipe"
    ELSE "Bad file descriptor"

\* Mutant: the input/output error is eaten without a pty too.
read_proc_stdout_eats_without_pty(use_pty, err) ==
    IF err = "none" THEN "data"
    ELSE IF strerror(err) # "Input/output error" THEN "raise" ELSE "None"

\* Local.read_proc_stdout: what it hands to read_proc_output, or that it
\* raises, when os.read meets err.
read_proc_stdout(use_pty, err) ==
    IF use_pty
    THEN IF err = "none" THEN "data"
         ELSE IF strerror(err) # "Input/output error" THEN "raise"
         ELSE "None"
    ELSE IF err = "none" THEN "data" ELSE "raise"

\* Local.read_proc_stderr
read_proc_stderr(use_pty, err) == IF err = "none" THEN "data" ELSE "raise"

\* Local._write_proc_stdin: it returns what os.write returned, or None after
\* a broken pipe, or raises.
write_proc_stdin(use_pty, err) ==
    IF err = "none" THEN "written"
    ELSE IF strerror(err) # "Broken pipe" THEN "raise" ELSE "None"

\* What the call a worker makes gives it.
io_outcome(call, use_pty, err) ==
    IF call = "read_proc_stdout" THEN read_proc_stdout(use_pty, err)
    ELSE IF call = "read_proc_stderr" THEN read_proc_stderr(use_pty, err)
    ELSE write_proc_stdin(use_pty, err)

\* The worker that makes this call is gone: an exception left it, or its
\* read gave nothing (read_proc_output's `if not data: break`).
io_worker_ended(call) ==
    \E i \in DOMAIN io_log :
        /\ io_log[i].call = call
        /\ \/ io_log[i].outcome = "raise"
           \/ (call # "_write_proc_stdin" /\ io_log[i].outcome = "None")

\* A worker calls its read or write, and os.read or os.write meets err.
IOCall(call, err) ==
    /\ Len(io_log) < MaxIO
    /\ ~io_worker_ended(call)
    /\ call = "read_proc_stderr" => ~using_pty
    /\ io_log' = Append(io_log, [call |-> call, err |-> err,
                                  outcome |-> io_outcome(call, using_pty, err)])
    /\ UNCHANGED <<runner_vars, opt_vars, watch_vars, pty_vars, stdin_vars,
                   chunk_vars, task_vars>>

\* The workers of an invocation with or without a pty.
InitIO ==
    /\ RunnerIdle
    /\ using_pty \in BOOLEAN
    /\ config = DefaultConfig
    /\ environ = NoEnv
    /\ OptsIdle
    /\ watcher = "Responder"
    /\ WatchIdle
    /\ PtyIdle
    /\ StdinIdle
    /\ Unused

NextIO ==
    \E call \in {"read_proc_stdout", "read_proc_stderr", "_write_proc_stdin"} :
        \E err \in OSErrors \cup {"none"} : IOCall(call, err)

SpecIO == InitIO /\ [][NextIO]_vars

\* ------------------------------------------- calls of a Task (SpecTask)
\* Mutant: the call is counted before the body runs.
Task_call_counting_first(count, first, body_raises) ==
    IF first = "missing"
    THEN [raised |-> "IndexError", ran |-> FALSE, times_called |-> count]
    ELSE IF first # "Context"
    THEN [raised |-> "TypeError", ran |-> FALSE, times_called |-> count]
    ELSE [raised |-> IF body_raises THEN "Exception" ELSE "None",
          ran |-> TRUE, times_called |-> count + 1]

\* Task.__call__: first is what args[0] is (a Context, something else, or
\* not there), body_raises whether the body raises. What the call raises,
\* whether the body ran, and times_called afterwards.
Task_call(count, first, body_raises) ==
    IF first = "missing"
    THEN [raised |-> "IndexError", ran |-> FALSE, times_called |-> count]
    ELSE IF first # "Context"
    THEN [raised |-> "TypeError", ran |-> FALSE, times_called |-> count]
    ELSE IF body_raises
    THEN [raised |-> "Exception", ran |-> TRUE, times_called |-> count]
    ELSE [raised |-> "None", ran |-> TRUE, times_called |-> count + 1]

\* Task.called
called(count) == count > 0

\* The Task is called once more.
CallTask(first, body_raises) ==
    LET r == Task_call(times_called, first, body_raises)
    IN  /\ Len(task_calls) < MaxCalls
        /\ times_called' = r.times_called
        /\ task_calls' =
               Append(task_calls,
                      [first |-> first, raised |-> r.raised, ran |-> r.ran,
                       before |-> times_called, after |-> r.times_called,
                       called |-> called(r.times_called)])
        /\ UNCHANGED <<signature, positional, auto_shortflags, arguments>>
        /\ UNCHANGED <<runner_vars, opt_vars, watch_vars, pty_vars, stdin_vars,
                       io_vars, chunk_vars>>

NextTask ==
    \E first \in {"Context", "other", "missing"} : \E body_raises \in BOOLEAN :
        CallTask(first, body_raises)

\* A Task after __init__ (times_called = 0), beside an unused runner.
SpecTask == Init /\ [][NextTask]_vars

\* ------------------------------- a Task's arguments (SpecArgs)
\* Characters of parameter names, and the names: one or two characters.
NameChars == {"a", "b"}
ParamNames == {<<c>> : c \in NameChars} \cup (NameChars \X NameChars)

\* positional=None of Task.__init__: a value that is no list of parameter
\* names.
NoPositional == <<<<"None">>>>

\* Mutant: the positionals are moved to the front in the order given.
reversed_as_given(s) == s

\* reversed(self.positional)
reversed(s) == [j \in 1..Len(s) |-> s[Len(s) + 1 - j]]

\* Mutant: the names of a new argument are not added to the taken names.
taken_names_not_updated(taken_names, new_names) == taken_names

\* taken_names.update(set(new_arg.names))
taken_names_update(taken_names, new_names) ==
    taken_names \cup {new_names[j] : j \in DOMAIN new_names}

\* Task.argspec: the parameters after the context, in definition order,
\* each with whether it has a default.
argspec(body) == body

\* Task.fill_implicit_positionals: what was given, or the parameters that
\* have no default, in definition order.
fill_implicit_positionals(given, body) ==
    IF given = NoPositional
    THEN LET without == SelectSeq(argspec(body), LAMBDA p : ~p.has_default)
         IN  [j \in 1..Len(without) |-> without[j].name]
    ELSE given

\* Task.arg_opts, the names and the positional flag: the name, then with
\* auto_shortflags the first of its characters that is neither the name
\* itself nor taken. The names here hold no underscore.
arg_opts(nm, taken_names, pos, auto) ==
    LET free == {j \in 1..Len(nm) :
                    ~(<<nm[j]>> = nm \/ <<nm[j]>> \in taken_names)}
        first == CHOOSE j \in free : \A l \in free : j <= l
    IN  [positional |-> \E j \in DOMAIN pos : pos[j] = nm,
         names |-> IF auto /\ free # {}
                   THEN <<nm, <<nm[first]>>>>
                   ELSE <<nm>>]

\* Argument.name of the parser for a name without underscore: the first of
\* its names.
Argument_name(arg) == arg.names[1]

\* The first loop of Task.get_arguments from parameter j on: one Argument
\* per parameter, in definition order.
RECURSIVE build_args(_, _, _, _, _)
build_args(tuples, j, taken_names, pos, auto) ==
    IF j > Len(tuples)
    THEN <<>>
    ELSE LET new_arg == arg_opts(tuples[j].name, taken_names, pos, auto)
         IN  <<new_arg>> \o
             build_args(tuples, j + 1,
                        taken_names_update(taken_names, new_arg.names),
                        pos, auto)

\* args.insert(0, args.pop(i)) for the first i whose name is posarg, if any.
to_front(args, posarg) ==
    LET hits == {j \in DOMAIN args : Argument_name(args[j]) = posarg}
        i == CHOOSE j \in hits : \A l \in hits : j <= l
    IN  IF hits = {}
        THEN args
        ELSE <<args[i]>> \o SubSeq(args, 1, i - 1)
                         \o SubSeq(args, i + 1, Len(args))

\* The second loop of Task.get_arguments from element j of order on.
RECURSIVE move_positionals(_, _, _)
move_positionals(args, order, j) ==
    IF j > Len(order)
    THEN args
    ELSE move_positionals(to_front(args, order[j]), order, j + 1)

\* Task.get_arguments
get_arguments(body, pos, auto) ==
    LET tuples == argspec(body)
        taken_names == {tuples[j].name : j \in DOMAIN tuples}
    IN  move_positionals(build_args(tuples, 1, taken_names, pos, auto),
                         reversed(pos), 1)

\* get_arguments() is called on the Task.
GetArguments ==
    /\ task_calls = <<>>
    /\ arguments' = get_arguments(signature, positional, auto_shortflags)
    /\ task_calls' = <<"get_arguments">>
    /\ UNCHANGED <<times_called, signature, positional, auto_shortflags>>
    /\ UNCHANGED <<runner_vars, opt_vars, watch_vars, pty_vars, stdin_vars,
                   io_vars, chunk_vars>>

\* Sequences of up to n different elements of S.
RECURSIVE InjectiveSeqs(_, _)
InjectiveSeqs(S, n) ==
    IF n = 0
    THEN {<<>>}
    ELSE LET shorter == InjectiveSeqs(S, n - 1)
         IN  shorter \cup
             {Append(s, x) : <<s, x>> \in
                 {y \in shorter \X S :
                     \A j \in DOMAIN y[1] : y[1][j] # y[2]}}

\* Task.__init__ on a body whose parameters after the context have
\* different names, those with a default last; positional is not given, or
\* is up to two names, which may repeat and may name no parameter.
InitArgs ==
    /\ RunnerInit
    /\ config = DefaultConfig
    /\ environ = NoEnv
    /\ OptsIdle
    /\ watcher = "Responder"
    /\ WatchIdle
    /\ PtyIdle
    /\ StdinIdle
    /\ io_log = <<>>
    /\ final_stream = <<>> /\ prompt = <<>>
    /\ delivered = 0 /\ scan_index = 0 /\ responded = 0
    /\ times_called = 0
    /\ task_calls = <<>>
    /\ arguments = <<>>
    /\ auto_shortflags \in BOOLEAN
    /\ \E ns \in InjectiveSeqs(ParamNames, MaxParams) :
       \E d \in 0..Len(ns) :
          signature = [j \in 1..Len(ns) |->
                          [name |-> ns[j], has_default |-> j > d]]
    /\ \E given \in {NoPositional, <<>>}
                    \cup {<<x>> : x \in ParamNames}
                    \cup {<<x, y>> : <<x, y>> \in ParamNames \X ParamNames} :
          positional = fill_implicit_positionals(given, signature)

SpecArgs == InitArgs /\ [][GetArguments]_vars

\* ================================================================ claims
\* The text of each chunk a reader consumed, in order.
Decoded(chunks) == [i \in DOMAIN chunks |-> decode(chunks[i])]

\* The positions of a backend call in the orchestrator's log.
At(event) == {i \in DOMAIN log : log[i] = <<event>>}

\* run() has ended after _run_body got past option normalization.
Ended == pc = "done" /\ outcome # "ValueError"

\* C1: when no interrupt was captured and no worker exception was collected,
\* run() raises Failure exactly when the child's exit code is nonzero and
\* warn is false, and returns the Result otherwise; either way exactly one
\* Result was built and its exited is the child's exit code, so that a
\* nonzero exit under warn returns a failed Result.
C1_FailureIffNonzeroNoWarn ==
    (Ended /\ exception = "None" /\ exceptions = <<>>) =>
        /\ outcome \in {"Failure", "returned"}
        /\ outcome = "Failure" <=> (exitcode # 0 /\ ~opts.warn)
        /\ \E r \in result :
              /\ result = {r}
              /\ r.exited = exitcode
              /\ failed(r) <=> exitcode # 0

\* C1 witness: a nonzero exit under warn=True was returned as a failed Result.
C1_Witness ==
    /\ pc = "done" /\ outcome = "returned" /\ opts.warn /\ exitcode # 0
    /\ \E r \in result : failed(r) /\ r.exited = exitcode

\* C2 as claimed: whenever the child exited with code 0 (and the completion
\* check saw it), run() returns a Result with ok true and raises nothing.
C2_Original ==
    (Ended /\ proc_finished /\ exitcode = 0) =>
        (outcome = "returned" /\ \E r \in result : ok(r))

\* C2 amended: when the completion check reported the child's exit, its code
\* is 0, no interrupt was captured and no worker exception was collected,
\* run() returns a Result with ok true, whatever warn is.
C2_ZeroExitReturnsOk ==
    (Ended /\ proc_finished /\ exitcode = 0
           /\ exception = "None" /\ exceptions = <<>>) =>
        (outcome = "returned" /\ result # {} /\ \A r \in result : ok(r))

\* C2 witness: a zero exit returned with warn left false.
C2_Witness ==
    /\ pc = "done" /\ outcome = "returned" /\ ~opts.warn /\ exitcode = 0
    /\ \E r \in result : ok(r)

\* C3: stop() is called exactly once in every call of run(), as its last
\* backend call, on every way out (also when option normalization raised
\* before anything was started), and never before run() ends.
C3_StopOnceLast ==
    /\ pc = "done" => (Cardinality(At("stop")) = 1 /\ log[Len(log)] = <<"stop">>)
    /\ pc # "done" => At("stop") = {}

\* C3 witness: run() ended on the ValueError of normalize_hide, with no child
\* started, and stop() was called.
C3_Witness ==
    /\ pc = "done" /\ outcome = "ValueError" /\ child = "none"
    /\ log = <<<<"stop">>>>

\* C4: once a KeyboardInterrupt was captured from wait(), send_interrupt was
\* called, and before program_finished was set; every join happens after the
\* flag was set; and run() ends only after every worker was joined, by
\* raising that KeyboardInterrupt, with no Result built.
C4_InterruptThenTeardownThenRaise ==
    exception = "KeyboardInterrupt" =>
        /\ \E i \in At("send_interrupt") : \E j \in At("set") : i < j
        /\ Cardinality(At("send_interrupt")) = 1
        /\ program_finished
        /\ result = {}
        /\ At("returncode") = {}
        /\ pc = "done" => (outcome = "KeyboardInterrupt" /\ joined = threads)
        /\ pc # "done" => outcome = "none"

\* C4 witness: the interrupt was re-raised after all three workers had been
\* joined, the output readers still running at that point.
C4_Witness ==
    /\ pc = "done" /\ outcome = "KeyboardInterrupt"
    /\ joined = Workers
    /\ wstate["stdout"] = "running"

\* C5: ThreadException is raised only when every worker has been joined, and
\* the exceptions collected are those of exactly the workers that had raised
\* when they were joined: one entry for each, holding that worker's
\* exception, and no other entry.
C5_AggregateIsExact ==
    /\ {exceptions[i][1] : i \in DOMAIN exceptions} = dead_at_join
    /\ Len(exceptions) = Cardinality(dead_at_join)
    /\ \A i \in DOMAIN exceptions : exceptions[i][2] = wexc[exceptions[i][1]]
    /\ outcome = "ThreadException" => (joined = threads /\ exceptions # <<>>)

\* C5 witness: ThreadException raised with two workers' exceptions, a third
\* worker having been joined without one.
C5_Witness ==
    /\ outcome = "ThreadException"
    /\ Len(exceptions) = 2
    /\ joined = Workers

\* C6: how run() ends follows a fixed precedence: a captured exception of the
\* polling loop is re-raised, also when workers raised; otherwise worker
\* exceptions give ThreadException, also when the exit code is nonzero; only
\* otherwise is the exit code asked for and a Result returned or Failure
\* raised.
C6_OutcomePrecedence ==
    Ended =>
        /\ exception # "None" =>
              (outcome = exception /\ result = {} /\ At("returncode") = {})
        /\ (exception = "None" /\ exceptions # <<>>) =>
              (outcome = "ThreadException" /\ result = {}
                   /\ At("returncode") = {})
        /\ (exception = "None" /\ exceptions = <<>>) =>
              (outcome \in {"Failure", "returned"} /\ At("returncode") # {})

\* C6 witness: the interrupt won over a collected worker exception.
C6_Witness ==
    /\ pc = "done" /\ outcome = "KeyboardInterrupt" /\ exceptions # <<>>

\* C6, second case reached: ThreadException although the child had been
\* seen to exit with a nonzero code.
C6_WitnessThreads ==
    /\ pc = "done" /\ outcome = "ThreadException"
    /\ proc_finished /\ exitcode # 0
\* C7: under FairSpec, which assumes nothing of the child: whenever a worker
\* has ended with an exception while the orchestrator is in wait(), the
\* orchestrator leaves wait().
C7_DeadWorkerEndsWait == (pc = "wait" /\ has_dead_threads) ~> (pc # "wait")

\* C7 witness: wait() was left on a dead worker alone, with the child still
\* running and no interrupt.
C7_Witness ==
    /\ pc = "join" /\ child = "running" /\ ~proc_finished
    /\ exception = "None" /\ has_dead_threads

\* C8: under FairSpec, which assumes nothing of the output readers: once the
\* completion check has reported the child's exit, run() ends.
C8_EndsOnceChildExited == (pc = "join" /\ proc_finished) ~> (pc = "done")

\* C8 witness: run() returned its Result while both output readers were
\* still in their read, each join having timed out.
C8_Witness ==
    /\ pc = "done" /\ proc_finished /\ outcome = "returned"
    /\ wstate["stdout"] = "running" /\ wstate["stderr"] = "running"

\* C9: hide never changes what is captured. In every state each capture
\* buffer holds the text of every chunk its reader got, whatever hide is,
\* while the caller's stream got that text exactly when the stream's name is
\* not in the hide set; and the Result, when built, holds the concatenation
\* of the chunks read up to then.
C9_HideOnlyStopsMirroring ==
    /\ [](\A s \in Streams :
              /\ buffer[s] = Decoded(consumed[s])
              /\ mirrored[s] = IF s \in opts.hide THEN <<>>
                                                  ELSE Decoded(consumed[s]))
    /\ [][\A r \in result' \ result :
              /\ r.stdout = Join(Decoded(consumed.out))
              /\ r.stderr = Join(Decoded(consumed.err))]_vars

\* C9 witness: a Result holding stdout and stderr text of which nothing was
\* mirrored, both streams being hidden.
C9_Witness ==
    /\ opts.hide = {"out", "err"}
    /\ mirrored = Empty
    /\ \E r \in result : r.stdout # <<>> /\ r.stderr # <<>>

Called == call_started \/ call_raised # "None"

\* What the caller gave for option k: the keyword when it was passed and is
\* not None, the configured default otherwise.
Given(k) ==
    IF k \in DOMAIN call_kwargs /\ call_kwargs[k] # "None"
    THEN call_kwargs[k] ELSE config[k]

Resubmitted(t, i) == i + 1 \in DOMAIN seen[t] /\ seen[t][i + 1] = seen[t][i]

EmittedBefore(t, i) == \E j \in 1..(i - 1) : got[t][j].responses > 0

\* The sentinel occurs in the part of call i's stream that the sentinel
\* cursor had not passed when the call was made.
SentinelUnscanned(t, i) ==
    findall(failure_sentinel,
            SubSeq(seen[t][i], got[t][i].sentinel_from + 1,
                   Len(seen[t][i]))) > 0

\* C13 as claimed: a FailingResponder's submit raises ResponseFailure exactly
\* when an earlier submit emitted a response and the sentinel occurs in the
\* text the sentinel cursor has not scanned; never before any response.
C13_RaisesOnlyAfterResponse ==
    watcher = "FailingResponder" =>
        \A t \in OutputReaders : \A i \in DOMAIN got[t] :
            got[t][i].raised <=>
                (EmittedBefore(t, i) /\ SentinelUnscanned(t, i))

RECURSIVE Alone(_, _, _)
\* What a thread that is the only user of an instance of class gets from
\* submitting streams in turn, its attributes being st before the first.
Alone(class, st, streams) ==
    IF streams = <<>> THEN <<>>
    ELSE LET r == submit(class, st, Head(streams))
         IN  <<[responses |-> r.responses, raised |-> r.raised,
                index |-> r.st.index, sentinel_from |-> st.failure_index]>>
             \o Alone(class, r.st, Tail(streams))

\* C14: with two threads using one watcher instance on two streams, in any
\* interleaving, each thread gets from its calls of submit (responses,
\* raises, cursors) what it would get if it were the only thread using the
\* instance.
C14_ThreadsDoNotShareCursors ==
    \A t \in OutputReaders : got[t] = Alone(watcher, NewWatcher, seen[t])

\* C14 witness: both threads were answered, on different streams, the
\* second thread's stream being shorter than the first thread's cursor.
C14_Witness ==
    /\ seen["stdout"] # <<>> /\ seen["stderr"] # <<>>
    /\ got["stdout"][1].responses > 0
    /\ got["stderr"][Len(got["stderr"])].responses > 0
    /\ Len(seen["stderr"][Len(seen["stderr"])]) < got["stdout"][1].index

\* ------------------------------------------- claims C15 to C20
\* C15: for every Result that run() builds: ok is true exactly when exited
\* is 0, failed is the negation of ok, return_code equals exited, and the
\* truth value of the Result is ok.
C15_ResultDerivedFields ==
    \A r \in result :
        /\ ok(r) <=> r.exited = 0
        /\ failed(r) <=> ~ok(r)
        /\ r.return_code = r.exited
        /\ Result_bool(r) <=> ok(r)

\* C15 witness: a Result of a nonzero exit, failed and false.
C15_Witness ==
    \E r \in result :
        r.exited # 0 /\ r.return_code # 0 /\ failed(r) /\ ~Result_bool(r)

C17_UnknownKeyRejected ==
    (Called /\ DOMAIN call_kwargs \ DOMAIN config # {}) =>
        (call_raised # "None" /\ ~call_started)

\* C18 as claimed: whenever hide selects both streams, that is for hide=True
\* and for hide="both", the command line is not printed.
C18_Original ==
    (call_started /\ Given("hide") \in {"True", "both"}) => ~call_echoed

\* C18 amended: when hide is True itself, echo is turned off and the command
\* line is not printed, whatever echo was given; for every other hide value,
\* "both" included, the command line is printed exactly when the echo given
\* is true.
C18_HideTrueTurnsEchoOff ==
    call_started =>
        /\ Given("hide") = "True" =>
               (call_opts["echo"] = "False" /\ ~call_echoed)
        /\ Given("hide") # "True" =>
               (call_echoed <=> Given("echo") = "True")

\* C18 witness: hide=True over echo=True, nothing printed.
C18_Witness ==
    /\ call_started /\ ~call_echoed
    /\ Given("hide") = "True" /\ Given("echo") = "True"

\* C19: the env handed to start() is the overlay alone when replace_env is
\* true; otherwise it holds, for every variable, the overlay's value when
\* the overlay has one and the process's value (or none) when not. No step
\* changes os.environ.
C19_ChildEnvironment ==
    /\ [](call_started =>
            LET overlay == dict_of(Given("env")) IN
            IF Given("replace_env") = "True"
            THEN call_env = overlay
            ELSE \A v \in EnvVars :
                     call_env[v] = IF overlay[v] # Unset THEN overlay[v]
                                                         ELSE environ[v])
    /\ [][environ' = environ]_vars

\* C19 witness: merged, the overlay's value replaced the process's for one
\* variable and the process's value was kept for the other.
C19_Witness ==
    /\ call_started /\ Given("replace_env") = "False"
    /\ Given("env") = "{A}"
    /\ environ = [v \in EnvVars |-> "p"]
    /\ call_env["A"] = "o" /\ call_env["B"] = "p"

\* Output reader w ended with a watcher's ResponseFailure.
ResponseFailed(w) == wexc[w] = "ResponseFailure"

\* C20 as claimed: whenever a watcher raised ResponseFailure in an output
\* reader, run() ends by raising ThreadException with that failure among
\* its exceptions, after all workers were joined, and builds no Result.
C20_Original ==
    \A w \in OutputReaders :
        (pc = "done" /\ ResponseFailed(w)) =>
            /\ outcome = "ThreadException"
            /\ \E i \in DOMAIN exceptions :
                   exceptions[i] = <<w, "ResponseFailure">>
            /\ joined = threads
            /\ result = {}

\* C20 amended: a ResponseFailure ends its output reader; while the
\* orchestrator is in wait(), it makes wait() end; when the reader had
\* raised by the time the join loop reached it and no interrupt was captured
\* from wait(), run() raises ThreadException holding that failure, after all
\* workers were joined, and builds no Result. (A captured interrupt is
\* re-raised instead; with it, too, no Result is built.)
C20_ResponseFailureReachesCaller ==
    /\ [](\A w \in OutputReaders :
            /\ ResponseFailed(w) => is_dead(w)
            /\ (pc = "done" /\ ResponseFailed(w) /\ w \in dead_at_join) =>
                   /\ result = {}
                   /\ joined = threads
                   /\ exception = "None" =>
                          /\ outcome = "ThreadException"
                          /\ \E i \in DOMAIN exceptions :
                                 exceptions[i] = <<w, "ResponseFailure">>)
    /\ \A w \in OutputReaders :
           (pc = "wait" /\ ResponseFailed(w)) ~> (pc # "wait")

\* C20 witness: ThreadException carrying the stdout reader's
\* ResponseFailure, the child never having exited.
C20_Witness ==
    /\ pc = "done" /\ outcome = "ThreadException" /\ child = "running"
    /\ exceptions = <<<<"stdout", "ResponseFailure">>>>
    /\ result = {}

\* C21: the completion flag, once set, is never cleared, and the only steps
\* that set it are the orchestrator's, as it leaves wait(); the workers read
\* the flag and leave it as it is.
C21_FlagIsMonotonic ==
    [][/\ program_finished => program_finished'
       /\ program_finished' # program_finished
              => (pc = "wait" /\ pc' = "join")]_vars

\* The flag was set, the input forwarder read it and ended on it, and the
\* call has ended with the flag still set.
C21_Witness ==
    /\ program_finished
    /\ pc = "done"
    /\ child = "running"
    /\ wstate["stdin"] = "done"

\* C22 as stated: whenever the completion flag is set, the backend's
\* completion check for the child is true.
C22_Original == program_finished => process_is_finished

\* C22: the flag is set when wait() has ended, which it does in three ways:
\* the completion check reported the child's exit (and then the child has
\* exited), a worker died, or an interrupt was captured.
C22_FlagSetWhenWaitEnded ==
    /\ program_finished
           => (proc_finished \/ has_dead_threads \/ exception # "None")
    /\ proc_finished => process_is_finished

\* The flag was set on the death of a worker, the child still running.
C22_Witness ==
    /\ program_finished
    /\ ~proc_finished
    /\ exception = "None"
    /\ has_dead_threads
    /\ child = "running"

\* The worker that is handed a stream's capture buffer.
reader_of(s) == IF s = "out" THEN "stdout" ELSE "stderr"

\* a is a prefix of b.
Prefix(a, b) == Len(a) <= Len(b) /\ SubSeq(b, 1, Len(a)) = a

C24_ResultOnlyAfterExit ==
    /\ Cardinality(result) <= 1
    /\ Cardinality(At("returncode")) <= 1
    /\ (result # {} \/ At("returncode") # {})
           => /\ proc_finished
              /\ process_is_finished
              /\ exception = "None"
              /\ At("returncode") # {}
    /\ (pc = "done" /\ (~proc_finished \/ exception # "None"))
           => (result = {} /\ At("returncode") = {})

\* A call that built its Result, the child having exited with a nonzero code.
C24_Witness ==
    /\ pc = "done"
    /\ proc_finished
    /\ At("returncode") # {}
    /\ \E r \in result : r.exited = 1

\* C25: a call that reached the start of its workers has one stdout reader
\* and one input forwarder, and a stderr reader exactly when it does not use
\* a pty (two workers with a pty, three without); with a pty no stderr
\* reader exists and nothing is read from the child's stderr.
C25_WorkersStarted ==
    At("start") # {}
        => /\ {"stdout", "stdin"} \subseteq threads
           /\ "stderr" \in threads <=> ~using_pty
           /\ Cardinality(threads) = (IF using_pty THEN 2 ELSE 3)
           /\ \A w \in Workers : wstate[w] # "none" <=> w \in threads
           /\ using_pty => (wstate["stderr"] = "none" /\ consumed["err"] = <<>>)

\* A call with a pty: two workers, and what the child wrote to its stderr
\* was read by the stdout reader.
C25_Witness ==
    /\ using_pty
    /\ threads = {"stdout", "stdin"}
    /\ consumed["out"] = <<(<<ByteE>>)>>

\* The calls of run() on the instance that wrote the fallback warning.
Warned == {i \in DOMAIN pty_calls : pty_calls[i].warning}

\* C26: should_use_pty returns false when pty was not requested; when it
\* was, false if the input stream has no usable descriptor and fallback is
\* allowed, and true otherwise. Over the runs of one instance the warning is
\* written at most once, and only in a call that falls back.
C26_PtyDecision ==
    /\ \A i \in DOMAIN pty_calls :
           LET c == pty_calls[i] IN
           c.use_pty = (c.pty /\ ~(~c.in_fileno /\ c.fallback))
    /\ Cardinality(Warned) <= 1
    /\ \A i \in Warned : pty_calls[i].pty /\ ~pty_calls[i].use_pty

\* The same, for the calls that leave in_stream at its default, sys.stdin.
C26_PtyDecisionOnSysStdin ==
    /\ \A i \in DOMAIN pty_calls :
           LET c == pty_calls[i] IN
           c.in_stream = "None"
               => c.use_pty = (c.pty /\ ~(~c.in_fileno /\ c.fallback))
    /\ Cardinality(Warned) <= 1
    /\ \A i \in Warned : pty_calls[i].pty /\ ~pty_calls[i].use_pty

\* Two runs in a row fell back to no pty; only the first wrote the warning.
C26_Witness ==
    /\ Len(pty_calls) = 2
    /\ \A i \in 1..2 : pty_calls[i].pty /\ ~pty_calls[i].use_pty
    /\ Warned = {1}

\* The cursor of thread t as its call i of submit found it.
CursorBefore(t, i) == IF i = 1 THEN NewWatcher.index ELSE got[t][i - 1].index

\* The positions after the cursor at which the (one-character) pattern
\* stands in a stream.
MatchesAfter(stream, cursor) ==
    {j \in (cursor + 1)..Len(stream) : <<stream[j]>> = pattern}

\* C27: one scan of a thread's stream looks only at the part after that
\* thread's cursor. Without a match there it yields nothing and leaves the
\* cursor; with matches it yields one response for each and moves the cursor
\* to the length of the whole stream.
C27_ScanStep ==
    \A t \in OutputReaders : \A i \in DOMAIN got[t] :
        ~got[t][i].raised =>
            LET found == MatchesAfter(seen[t][i], CursorBefore(t, i))
            IN  /\ got[t][i].responses = Cardinality(found)
                /\ got[t][i].index = IF found = {} THEN CursorBefore(t, i)
                                                   ELSE Len(seen[t][i])

\* A thread answered the pattern, the stream grew by a second occurrence,
\* and the next scan answered only that one and moved the cursor to the end.
C27_Witness ==
    \E t \in OutputReaders :
        /\ Len(got[t]) = 2
        /\ seen[t][2] = pattern \o pattern
        /\ got[t][1].responses = 1
        /\ got[t][1].index = 1
        /\ got[t][2].responses = 1
        /\ got[t][2].index = 2

\* ------------------------------------ claims about the input forwarder
\* The forwarder's loop has ended by a break.
Returned == stdin_log[Len(stdin_log)].op = "return"

\* C28: the forwarder leaves its loop only in an iteration whose read gave
\* no character: the empty string (end of the stream), or None with the
\* completion flag set. Every character it read, before or after the flag
\* was set, was handed to write_proc_stdin right after the read, before the
\* loop ended.
C28_ForwarderEnds ==
    /\ \A i \in DOMAIN stdin_log :
           stdin_log[i].op = "return"
               => \/ stdin_log[i].arg = ""
                  \/ (stdin_log[i].arg = "None" /\ stdin_log[i].finished)
    /\ \A i \in DOMAIN stdin_log :
           (stdin_log[i].op = "read" /\ Returned)
               => /\ stdin_log[i + 1].op = "write"
                  /\ stdin_log[i + 1].arg = stdin_log[i].arg

\* The flag was set, a character was read after that and written to the
\* child, and the loop ended on a later read that gave nothing.
C28_Witness ==
    /\ Returned
    /\ stdin_log[Len(stdin_log)].arg = "None"
    /\ \E i \in DOMAIN stdin_log :
          /\ stdin_log[i].op = "read"
          /\ stdin_log[i].finished
          /\ stdin_log[i + 1].op = "write"

\* The echo_stdin option the forwarder was started with.
EchoOption == stdin_log[1].arg

\* C29: a character written to the child is echoed to the caller's output
\* when echo_stdin is forced on, not when it is forced off, and when it is
\* unset exactly when no pty is used and the input is a terminal. The echo
\* of a character follows its write to the child.
C29_EchoFollowsOption ==
    LET echoes == \/ EchoOption = "True"
                  \/ (EchoOption = "None" /\ ~using_pty /\ in_tty)
    IN  /\ \A i \in DOMAIN stdin_log :
               stdin_log[i].op = "write"
                   => ((/\ i + 1 \in DOMAIN stdin_log
                        /\ stdin_log[i + 1].op = "echo"
                        /\ stdin_log[i + 1].arg = stdin_log[i].arg)
                       <=> echoes)
        /\ \A i \in DOMAIN stdin_log :
               stdin_log[i].op = "echo"
                   => /\ stdin_log[i - 1].op = "write"
                      /\ stdin_log[i - 1].arg = stdin_log[i].arg

\* With echo_stdin unset, no pty and a terminal for input, two characters
\* were each written to the child and then echoed.
C29_Witness ==
    /\ EchoOption = "None"
    /\ ~using_pty
    /\ in_tty
    /\ Cardinality({i \in DOMAIN stdin_log : stdin_log[i].op = "echo"}) = MaxIn

Swallowed(c) == c.err # "none" /\ c.outcome # "raise"

\* C31: the local backend swallows two OS errors and no other: the
\* input/output error of a stdout read under a pty, which then reads as the
\* end of the stream, and the broken pipe of a write to the child's input,
\* with or without a pty. Every other OSError of a read or write is raised,
\* the input/output error of a read without a pty among them.
C31_TwoErrorsSwallowed ==
    \A i \in DOMAIN io_log :
        LET c == io_log[i] IN
        /\ Swallowed(c)
               <=> \/ (c.call = "read_proc_stdout" /\ using_pty /\ c.err = "EIO")
                   \/ (c.call = "_write_proc_stdin" /\ c.err = "EPIPE")
        /\ Swallowed(c) => c.outcome = "None"
        /\ (c.err # "none" /\ ~Swallowed(c)) => c.outcome = "raise"
        /\ (c.call # "_write_proc_stdin" /\ c.outcome # "data")
               => \A j \in DOMAIN io_log : j > i => io_log[j].call # c.call

\* Under a pty a read of stdout ate the input/output error and a write ate
\* the broken pipe.
C31_Witness ==
    /\ using_pty
    /\ \E i \in DOMAIN io_log :
          io_log[i] = [call |-> "read_proc_stdout", err |-> "EIO",
                       outcome |-> "None"]
    /\ \E i \in DOMAIN io_log :
          io_log[i] = [call |-> "_write_proc_stdin", err |-> "EPIPE",
                       outcome |-> "None"]

\* C32: a watcher's cursors do not outlive an invocation. In every
\* invocation after the first on the same instance, a reader that has not
\* submitted yet has index 0, failure_index 0 and tried false, and its first
\* submit scans its stream from the start: it answers every occurrence of
\* the pattern and does not raise, whatever the earlier invocation left.
C32_CursorsStartAfresh ==
    past # <<>> =>
        \A t \in OutputReaders :
            /\ seen[t] = <<>> => /\ index[t] = 0
                                 /\ failure_index[t] = 0
                                 /\ ~tried[t]
            /\ seen[t] # <<>> =>
                   /\ got[t][1].sentinel_from = 0
                   /\ ~got[t][1].raised
                   /\ got[t][1].responses = findall(pattern, seen[t][1])

\* The first invocation left both cursors moved and tried set; the reader of
\* the second answered the pattern at the start of its stream.
C32_Witness ==
    /\ Len(past) = 1
    /\ past[1].index > 0
    /\ past[1].failure_index > 0
    /\ past[1].tried
    /\ seen["stdout"] # <<>>
    /\ got["stdout"][1].responses = 1

\* failure_index of thread t as its call i of submit left it.
FailureAfter(t, i) ==
    IF i < Len(got[t]) THEN got[t][i + 1].sentinel_from ELSE failure_index[t]

\* The sentinel stands in a stream after the sentinel cursor.
SentinelAfter(stream, from) ==
    \E j \in (from + 1)..Len(stream) : <<stream[j]>> = failure_sentinel

\* C33: in a FailingResponder the two cursors move apart from each other.
\* A submit moves index only when the pattern stands after index, and
\* failure_index only when the sentinel stands after failure_index, each to
\* the length of the stream; so a submit in which only the pattern matches
\* leaves failure_index, and one in which only the sentinel matches leaves
\* index.
C33_CursorsIndependent ==
    watcher = "FailingResponder" =>
        \A t \in OutputReaders : \A i \in DOMAIN got[t] :
            LET stream == seen[t][i]
                matched == MatchesAfter(stream, CursorBefore(t, i)) # {}
                failed_ == SentinelAfter(stream, got[t][i].sentinel_from)
            IN  /\ got[t][i].index # CursorBefore(t, i)
                       => (matched /\ got[t][i].index = Len(stream))
                /\ FailureAfter(t, i) # got[t][i].sentinel_from
                       => (failed_ /\ FailureAfter(t, i) = Len(stream))
                /\ ~matched => got[t][i].index = CursorBefore(t, i)
                /\ ~failed_ => FailureAfter(t, i) = got[t][i].sentinel_from

\* One thread's FailingResponder: a submit in which only the pattern matched
\* moved index alone, the next, in which only the sentinel matched, moved
\* failure_index alone.
C33_Witness ==
    /\ watcher = "FailingResponder"
    /\ \E t \in OutputReaders :
          /\ Len(got[t]) = 2
          /\ seen[t][1] = pattern
          /\ seen[t][2] = pattern \o failure_sentinel
          /\ got[t][1].index = 1
          /\ got[t][2].sentinel_from = 0
          /\ got[t][2].index = 1
          /\ failure_index[t] = 2

\* The length of the stream thread t submitted last.
LastLen(t) == IF seen[t] = <<>> THEN 0 ELSE Len(seen[t][Len(seen[t])])

\* C34: for each thread, whose stream only grows from submit to submit,
\* index lies between 0 and the length of the stream submitted last and
\* never goes down from one submit to the next; so does failure_index.
C34_CursorsBoundedAndMonotone ==
    \A t \in OutputReaders :
        /\ index[t] \in 0..LastLen(t)
        /\ failure_index[t] \in 0..LastLen(t)
        /\ \A i \in DOMAIN got[t] :
               /\ CursorBefore(t, i) <= got[t][i].index
               /\ got[t][i].index <= Len(seen[t][i])
               /\ got[t][i].sentinel_from <= FailureAfter(t, i)
               /\ FailureAfter(t, i) <= Len(seen[t][i])

\* Over two submits of one thread, failure_index went from 0 to 1 and
\* stayed, and index stayed at 0 and then went to 2, the length of the
\* stream.
C34_Witness ==
    /\ watcher = "FailingResponder"
    /\ \E t \in OutputReaders :
          /\ Len(got[t]) = 2
          /\ got[t][1].index = 0
          /\ got[t][2].sentinel_from = 1
          /\ failure_index[t] = 1
          /\ got[t][2].index = 2
          /\ LastLen(t) = 2

\* C35: however the child's output is cut into chunks, once all of it was
\* delivered the Responder has yielded as many responses as the pattern has
\* occurrences, found from the left and not overlapping, in the whole
\* stream.
C35_ResponsesIgnoreChunking ==
    delivered = Len(final_stream)
        => responded = findall(prompt, final_stream)

\* The same for a pattern of one character, which no chunk can cut.
C35_OneCharacterPrompt ==
    (Len(prompt) = 1 /\ delivered = Len(final_stream))
        => responded = findall(prompt, final_stream)

\* C36 as stated: when run() has ended after it started the child, however
\* it ended, the child has exited.
C36_Original == (pc = "done" /\ At("start") # {}) => child = "exited"

\* C36: when run() has returned a Result or raised Failure, the child has
\* exited and the completion check has said so; a run() that ended by
\* ThreadException or by the interrupt it re-raises has built no Result,
\* and its child may be running still.
C36_ReturnsAfterExit ==
    pc = "done" =>
        /\ outcome \in {"returned", "Failure"}
               => (child = "exited" /\ proc_finished /\ result # {})
        /\ outcome \in {"ThreadException", "KeyboardInterrupt"}
               => (At("start") # {} /\ result = {})

\* run() raised Failure for a child that exited with a nonzero code.
C36_Witness ==
    /\ pc = "done"
    /\ outcome = "Failure"
    /\ child = "exited"
    /\ exitcode = 1

\* C37: in every call of run() on an instance, the first or a later one,
\* the completion flag is unset while the orchestrator is in its polling
\* loop, the workers started.
C37_FlagUnsetWhenWorkersStart == pc = "wait" => ~program_finished

\* ------------------------------------------------- claims about Task
\* The calls of the Task, up to call i, whose body returned.
Returned_(i) == {j \in 1..i : task_calls[j].raised = "None"}

\* C38: times_called is the number of calls whose body returned: it starts
\* at 0 and each such call adds 1. A call whose first argument is not a
\* Context raises TypeError, runs no body and leaves the count; a call whose
\* body raises leaves the count. called is true exactly when the count is
\* above 0.
C38_TimesCalledCountsReturns ==
    /\ times_called = Cardinality(Returned_(Len(task_calls)))
    /\ \A i \in DOMAIN task_calls :
           LET c == task_calls[i] IN
           /\ c.before = Cardinality(Returned_(i - 1))
           /\ c.first = "other"
                  => (c.raised = "TypeError" /\ ~c.ran /\ c.after = c.before)
           /\ (c.ran /\ c.raised # "None") => c.after = c.before
           /\ c.raised = "None" => (c.ran /\ c.after = c.before + 1)
           /\ c.called <=> Returned_(i) # {}

\* The Task was called without a Context, then with a body that raised,
\* then twice with a body that returned: times_called is 2.
C38_Witness ==
    /\ Len(task_calls) = 4
    /\ task_calls[1].raised = "TypeError"
    /\ task_calls[2].raised = "Exception"
    /\ ~task_calls[2].called
    /\ task_calls[3].called
    /\ times_called = 2

\* get_arguments() has returned.
GotArguments == task_calls = <<"get_arguments">>

\* Where a name first stands in a sequence of names that holds it.
FirstAt(s, x) ==
    CHOOSE j \in DOMAIN s : s[j] = x /\ \A l \in 1..(j - 1) : s[l] # x

\* The name of argument i is one of Task.positional.
IsPositional(i) ==
    \E j \in DOMAIN positional : positional[j] = arguments[i].names[1]

\* Parameter names in definition order.
ParamOrder == [j \in DOMAIN signature |-> signature[j].name]

\* C39: get_arguments returns one Argument per parameter after the context;
\* those named in Task.positional come first, in the order Task.positional
\* names them, and the others follow in definition order.
C39_PositionalsFirstThenDefinitionOrder ==
    GotArguments =>
        /\ Len(arguments) = Len(signature)
        /\ \A j \in DOMAIN signature :
              \E i \in DOMAIN arguments : arguments[i].names[1] = signature[j].name
        /\ \A i, l \in DOMAIN arguments :
              i < l =>
                 /\ IsPositional(l) => IsPositional(i)
                 /\ (IsPositional(i) /\ IsPositional(l))
                       => FirstAt(positional, arguments[i].names[1])
                            < FirstAt(positional, arguments[l].names[1])
                 /\ (~IsPositional(i) /\ ~IsPositional(l))
                       => FirstAt(ParamOrder, arguments[i].names[1])
                            < FirstAt(ParamOrder, arguments[l].names[1])

\* Parameters ab, a, ba with positional (ba, a): the arguments come back as
\* ba, a, ab.
C39_Witness ==
    /\ GotArguments
    /\ ParamOrder = <<<<"a", "b">>, <<"a">>, <<"b", "a">>>>
    /\ positional = <<<<"b", "a">>, <<"a">>>>
    /\ Len(arguments) = 3
    /\ arguments[1].names[1] = <<"b", "a">>
    /\ arguments[2].names[1] = <<"a">>
    /\ arguments[3].names[1] = <<"a", "b">>

\* Argument i has a short flag.
HasShort(i) == Len(arguments[i].names) = 2

\* A one-character name is the full name of a parameter, or the short flag
\* of an argument other than i.
TakenFor(i, c) ==
    \/ \E j \in DOMAIN signature : signature[j].name = c
    \/ \E l \in DOMAIN arguments :
          l # i /\ HasShort(l) /\ arguments[l].names[2] = c

\* C40: with auto_shortflags on, no two arguments of get_arguments have the
\* same short flag, no short flag is the full name of a parameter, a short
\* flag is a character of the argument's own name, and an argument has no
\* short flag exactly when every character of its name is taken.
C40_ShortFlagsUnique ==
    (GotArguments /\ auto_shortflags) =>
        /\ \A i, l \in DOMAIN arguments :
              (i # l /\ HasShort(i) /\ HasShort(l))
                 => arguments[i].names[2] # arguments[l].names[2]
        /\ \A i \in DOMAIN arguments :
              /\ HasShort(i) =>
                    /\ \A j \in DOMAIN signature :
                          signature[j].name # arguments[i].names[2]
                    /\ \E k \in DOMAIN arguments[i].names[1] :
                          arguments[i].names[2] = <<arguments[i].names[1][k]>>
              /\ ~HasShort(i) <=>
                    \A k \in DOMAIN arguments[i].names[1] :
                       TakenFor(i, <<arguments[i].names[1][k]>>)

\* Parameters ab, ba, aa: ab gets a, ba gets b, and aa, whose only
\* character is taken, gets no short flag.
C40_Witness ==
    /\ GotArguments /\ auto_shortflags
    /\ ParamOrder = <<<<"a", "b">>, <<"b", "a">>, <<"a", "a">>>>
    /\ positional = <<>>
    /\ arguments[1].names = <<<<"a", "b">>, <<"a">>>>
    /\ arguments[2].names = <<<<"b", "a">>, <<"b">>>>
    /\ arguments[3].names = <<<<"a", "a">>>>

====
